---- MODULE Spec2Model ----
(***************************************************************************)
(* Model of the 1-Wire master engine of one-wire.c (lines 1-554): the line *)
(* polls, the reset/presence handshake, bit and byte slots, the ROM search *)
(* with its multi-call continuation, the ROM commands, the power-supply    *)
(* function command, the CRC and the session phase.                        *)
(*                                                                         *)
(* Every engine call is one action (the engine is blocking and single      *)
(* threaded).  The line is the environment: each call draws the behaviour  *)
(* of the line during its reset from ResetEnvs, and the slaves answer the  *)
(* slots as compliant open-drain devices.                                  *)
(*                                                                         *)
(* Spec is the engine on a small bus, SpecChain a caller that enumerates   *)
(* the bus with chained searches, SpecCrc a caller's running crc8          *)
(* computation, SpecEcho a byte written to a slave that sends it back,     *)
(* SpecRetry a caller that retries the reset after a failed operation,     *)
(* SpecTwo two callers whose calls interleave without a lock, SpecTurn a   *)
(* search taken turn by turn of its bit loop, SpecProbe the polls and the  *)
(* read slot on their own.                                                 *)
(***************************************************************************)
EXTENDS Integers, Sequences, FiniteSets, TLC

VARIABLES
  wire1state,       \* static enum wire1state_t wire1state
  wire1_idleloops,  \* static uint16_t wire1_idleloops
  slaves,           \* the devices on the bus (indices into Pool)
  parasite,         \* the slaves that are parasite powered
  alarm,            \* the slaves with an alarm pending
  selected,         \* the slaves addressed by the last ROM command
  addrStart,        \* the caller's search cursor: last found address
  lastConfPos,      \* the caller's search cursor: last conflict position
  found,            \* addresses returned by the running chain of searches
  call,             \* record of the last engine call (history)
  crc,              \* a running crc8 computation of a caller
  echo,             \* a byte written to a slave that sends it back
  caller,           \* the logical callers of the engine: what they are about
  search,           \* a search in progress: the locals of its bit loop
  probe             \* a poll or a read slot on a line, and what it returned

\* the engine and its bus
engine == <<wire1state, wire1_idleloops, slaves, parasite, alarm, selected,
            addrStart, lastConfPos, found, call, caller, search>>

vars == <<wire1state, wire1_idleloops, slaves, parasite, alarm, selected,
          addrStart, lastConfPos, found, call, crc, echo, caller,
          search, probe>>

-----------------------------------------------------------------------------
(* Bounds of the model *)

\* largest budget handed to wire1SetupPoll4Idle
MaxIdleLoops == 2
\* largest number of slaves on the bus of the engine specification
MaxSlaves == 2
\* largest number of slaves on the bus of the search-chain specification
MaxChainSlaves == 3
\* largest number of addresses a chain of searches collects
MaxChainCalls == 5
\* largest number of bytes handed to one call of crc8 in a running computation
MaxCrcChunk == 2
\* samples of a read slot during which an answering slave keeps the line low
SlaveLowSamples == 6
\* largest budget handed to a poll on its own, and the samples of its line
MaxPollLoops == 4
\* largest number of slaves answering one read slot on its own
MaxAnswering == 2

-----------------------------------------------------------------------------
(* Program constants *)

W1_CRC_POLYNOMIAL == 140
W1_ADDR_BYTE_CRC == 7
W1_ROMCMD_READ == 51
W1_ROMCMD_MATCH == 85
W1_ROMCMD_SEARCH == 240
W1_ROMCMD_ALARM == 236
W1_ROMCMD_SKIP == 204
W1_FUNC_PARASITE_POWER == 180

\* iteration budgets of the polls
ResetHoldLoops == 122
PresenceLoops == 15
ReleaseLoops == 60
RestLoops == 58
WriteLoops == 15
\* the read slot runs 4 loops of 6 samples
ReadLoops == 4
SamplesPerLoop == 6
ReadSamples == ReadLoops * SamplesPerLoop
AddrBits == 64
AddrBytes == 8
\* the value a search returns when no conflict is left
NoConflict == 64

IDLE == "IDLE"
ROM_COMMAND == "ROM_COMMAND"
FUNCTION_COMMAND == "FUNCTION_COMMAND"
WAIT_POLL == "WAIT_POLL"
wire1state_t == {IDLE, ROM_COMMAND, FUNCTION_COMMAND, WAIT_POLL}

-----------------------------------------------------------------------------
(* Bytes and bits *)

\* F applied to the value of v
Let(v, F(_)) == CHOOSE y \in {F(x) : x \in {v}} : TRUE

\* BV(n)
BV(n) == 2 ^ n

\* bit n of the byte b, as 0 or 1
BitOf(b, n) == (b \div BV(n)) % 2

\* b1 ^ b2 on uint8_t
Xor8(b1, b2) ==
  LET x(n) == IF BitOf(b1, n) # BitOf(b2, n) THEN BV(n) ELSE 0
  IN ((x(0) + x(1)) + (x(2) + x(3))) + ((x(4) + x(5)) + (x(6) + x(7)))

\* arr[bit/8] & BV(bit%8): the masked bit, zero or BV(bit%8)
maskBitInArray(arr, bit) == BitOf(arr[(bit \div 8) + 1], bit % 8) * BV(bit % 8)

\* a step of crc8 that takes the bits of the byte from bit 7 down
crc8BitFromTop(remainder, polynomial, byte, j) ==
  IF BitOf(byte, 7 - j) # remainder % 2
    THEN Xor8(remainder \div 2, polynomial)
    ELSE remainder \div 2

\* one step of the inner loop of crc8: fold bit j of the byte into remainder
crc8Bit(remainder, polynomial, byte, j) ==
  LET data_bit_j == BitOf(byte, j)
      rem_bit_0  == remainder % 2
      shifted    == remainder \div 2
  IN IF data_bit_j # rem_bit_0 THEN Xor8(shifted, polynomial) ELSE shifted

\* crc8 starting from a remainder of 0 whatever crcIn is
crc8NoSeed(crcIn, polynomial, data, size) ==
  LET loop[remainder \in 0..255, i \in 0..size, j \in 0..8] ==
        IF i >= size THEN remainder
        ELSE IF j >= 8 THEN loop[remainder, i + 1, 0]
        ELSE loop[crc8Bit(remainder, polynomial, data[i + 1], j), i, j + 1]
  IN loop[0, 0, 0]

\* uint8_t crc8(crcIn, polynomial, data, size): the two loops, from byte i
\* and bit j on
crc8(crcIn, polynomial, data, size) ==
  LET loop[remainder \in 0..255, i \in 0..size, j \in 0..8] ==
        IF i >= size THEN remainder
        ELSE IF j >= 8 THEN loop[remainder, i + 1, 0]
        ELSE loop[crc8Bit(remainder, polynomial, data[i + 1], j), i, j + 1]
  IN loop[crcIn, 0, 0]

-----------------------------------------------------------------------------
(* Line operations.  A line is a function from the sample number to the   *)
(* level read by that sample (0 low, 1 high); outside its domain the line  *)
(* is pulled up.  The operation counters of a call: holds and releases of  *)
(* the line, samples taken, and the reset pulses, read slots and write     *)
(* slots they make up.                                                     *)

LineAt(line, t) == IF t \in DOMAIN line THEN line[t] ELSE 1

NoOps == [holds |-> 0, releases |-> 0, samples |-> 0,
          resets |-> 0, reads |-> 0, writes |-> 0]

OpsAdd(a, b) == [holds    |-> a.holds + b.holds,
                 releases |-> a.releases + b.releases,
                 samples  |-> a.samples + b.samples,
                 resets   |-> a.resets + b.resets,
                 reads    |-> a.reads + b.reads,
                 writes   |-> a.writes + b.writes]

OpsTimes(n, a) == [holds    |-> n * a.holds,
                   releases |-> n * a.releases,
                   samples  |-> n * a.samples,
                   resets   |-> n * a.resets,
                   reads    |-> n * a.reads,
                   writes   |-> n * a.writes]

\* a poll whose counter runs through 0 once when the level never shows
PollSamplesWrapped(line, t0, nloops, expect) ==
  LET hits == {k \in 1..nloops : LineAt(line, t0 + k) = expect}
  IN IF hits = {} THEN nloops + 256
     ELSE CHOOSE k \in hits : \A j \in hits : k <= j

\* The loop of wire1Poll4Hold / wire1Poll4Release samples the line once per
\* turn and ends with the first sample at the expected level, or after nloops
\* samples: the number of samples it takes.
PollSamples(line, t0, nloops, expect) ==
  LET hits == {k \in 1..nloops : LineAt(line, t0 + k) = expect}
  IN IF hits = {} THEN nloops
     ELSE CHOOSE k \in hits : \A j \in hits : k <= j

\* count is decremented once per sample; after the loop "brne done" returns
\* nloops - count when count is not 0, otherwise nloops is cleared first.
Poll(line, t0, nloops, expect) ==
  Let(PollSamples(line, t0, nloops, expect), LAMBDA used :
  Let((nloops - used) % 256, LAMBDA count :
    [ret  |-> IF count # 0 THEN (nloops - count) % 256 ELSE 0,
     used |-> used]))

\* uint8_t wire1Poll4Hold(uint8_t nloops), sampling line after sample t0
Poll4Hold(line, t0, nloops) == Poll(line, t0, nloops, 0)

\* uint8_t wire1Poll4Release(uint8_t nloops), sampling line after sample t0
Poll4Release(line, t0, nloops) == Poll(line, t0, nloops, 1)

\* the line of a slot in which no slave pulls low
HighLine == [t \in 1..ReadSamples |-> 1]
\* the line while the master holds it low
HeldLine == [t \in 1..ResetHoldLoops |-> 0]

\* the line of a read slot: an answering slave keeps it low for the first
\* SlaveLowSamples samples
SlotLine(pulled) ==
  [t \in 1..ReadSamples |-> IF pulled /\ t <= SlaveLowSamples THEN 0 ELSE 1]

\* wire1ReadBit going by its first sample alone
ReadBitFirstSample(line) == IF LineAt(line, 1) = 0 THEN 0 ELSE 255

\* uint8_t wire1ReadBit(void): bittest counts the low samples
ReadBit(line) ==
  LET bittest == Cardinality({t \in 1..ReadSamples : LineAt(line, t) = 0})
  IN IF bittest > 0 THEN 0 ELSE 255

\* what a read slot returns when a slave pulls the line (TRUE) or none does
ReadSlot == [pulled \in BOOLEAN |-> ReadBit(SlotLine(pulled))]

ReadBitOps == [holds |-> 1, releases |-> 1, samples |-> ReadSamples,
               resets |-> 0, reads |-> 1, writes |-> 0]

\* a write slot that returns with the line still held after a 0
WriteBitOpsHeld(bit) ==
  LET wait == IF bit # 0 THEN Poll4Hold(HighLine, 0, WriteLoops)
                         ELSE Poll4Release(HeldLine, 0, WriteLoops)
  IN [holds |-> 1, releases |-> IF bit # 0 THEN 1 ELSE 0,
      samples |-> wait.used, resets |-> 0, reads |-> 0, writes |-> 1]

\* void wire1WriteBit(uint8_t bit): the operations of one write slot
WriteBitOps(bit) ==
  LET wait == IF bit # 0 THEN Poll4Hold(HighLine, 0, WriteLoops)
                         ELSE Poll4Release(HeldLine, 0, WriteLoops)
  IN [holds |-> 1, releases |-> 1, samples |-> wait.used,
      resets |-> 0, reads |-> 0, writes |-> 1]

\* wire1WriteByte sending bit 7 first
WriteByteFromTop(writeByte) == [i \in 1..8 |-> BitOf(writeByte, 8 - i)]

\* void wire1WriteByte(uint8_t writeByte): the bits put on the line, in order
WriteByte(writeByte) == [i \in 1..8 |-> BitOf(writeByte, i - 1)]

\* the operations of the write slots of wire1WriteByte
WriteByteOps(writeByte) ==
  LET ones == Cardinality({i \in 1..8 : WriteByte(writeByte)[i] # 0})
  IN OpsAdd(OpsTimes(ones, WriteBitOps(1)), OpsTimes(8 - ones, WriteBitOps(0)))

\* wire1ReadByte that leaves bit 7 of its result 0
ReadByteSevenBits(bitsRead) ==
  LET loop[readByte \in 0..255, i \in 0..8] ==
        IF i >= 7 THEN readByte
        ELSE loop[IF bitsRead[i + 1] # 0 THEN readByte + BV(i) ELSE readByte,
                  i + 1]
  IN loop[0, 0]

\* wire1ReadByte putting the first bit read at bit 7
ReadByteFromTop(bitsRead) ==
  LET loop[readByte \in 0..255, i \in 0..8] ==
        IF i >= 8 THEN readByte
        ELSE loop[IF bitsRead[i + 1] # 0 THEN readByte + BV(7 - i)
                                         ELSE readByte,
                  i + 1]
  IN loop[0, 0]

\* uint8_t wire1ReadByte(void): readByte |= BV(i) for every nonzero read
ReadByte(bitsRead) ==
  LET loop[readByte \in 0..255, i \in 0..8] ==
        IF i >= 8 THEN readByte
        ELSE loop[IF bitsRead[i + 1] # 0 THEN readByte + BV(i) ELSE readByte,
                  i + 1]
  IN loop[0, 0]

-----------------------------------------------------------------------------
(* The bus: a pool of devices.  The ROM address of a device is CRC-valid, *)
(* except for the devices of Defective, which send a wrong CRC byte.      *)

\* the first 7 bytes of the ROM addresses in the pool
PoolPayload == <<
  <<2, 0, 0, 0, 0, 0, 0>>,
  <<1, 0, 0, 0, 0, 0, 0>>,
  <<3, 0, 0, 0, 0, 0, 0>>,
  <<40, 0, 0, 0, 0, 0, 128>>,
  <<40, 255, 0, 16, 0, 1, 0>>,
  <<16, 0, 0, 0, 0, 0, 0>> >>

Pool == 1..Len(PoolPayload)

\* the devices whose ROM holds a wrong CRC byte, and the others
Defective == {6}
Compliant == Pool \ Defective

\* the 8-byte ROM address of a device: byte 7 is the CRC of bytes 0..6, or
\* that CRC plus one on a defective device
PoolAddr == [d \in Pool |->
  Append(PoolPayload[d],
         (crc8(0, W1_CRC_POLYNOMIAL, PoolPayload[d], 7)
            + (IF d \in Defective THEN 1 ELSE 0)) % 256)]

\* bit i (0..63) of the ROM of device d, in the order it goes over the line
PoolBit == [d \in Pool |->
  [i \in 0..(AddrBits - 1) |-> BitOf(PoolAddr[d][(i \div 8) + 1], i % 8)]]

ZeroAddr == [i \in 1..AddrBytes |-> 0]

-----------------------------------------------------------------------------
(* The line during a reset.  hi: the sample of the master's hold at which  *)
(* the line reads high although held (0: never); busy: the number of read  *)
(* slots of the idle poll that slaves answer with 0 before the bus reads   *)
(* idle; d: the sample after the master's release at which a slave pulls   *)
(* the line low (0: never); len: the number of samples the line then stays *)
(* low, counted up to the first high sample; g: the sample after that      *)
(* first high one at which the line is low once more (0: never).           *)

Env(hi, busy, d, len, g) ==
  [hi |-> hi, busy |-> busy, d |-> d, len |-> len, g |-> g]

\* presences: <<d, len, g>>
Presences == {
  <<0, 0, 0>>,
  <<5, 30, 0>>,
  <<14, 30, 0>>, <<15, 30, 0>>, <<16, 30, 0>>,
  <<5, 1, 0>>,
  <<5, 59, 0>>, <<5, 60, 0>>, <<5, 200, 0>>,
  <<5, 30, 1>>, <<5, 30, 57>>, <<5, 30, 58>> }

LineEnvs ==
  {Env(0, 0, p[1], p[2], p[3]) : p \in Presences}
  \cup {Env(50, 0, 0, 0, 0), Env(50, 0, 5, 30, 0)}

\* the line of a bus without a slave, and of one with a well-timed presence
NoEnv == Env(0, 0, 0, 0, 0)
GoodEnv == Env(0, 0, 5, 30, 0)

\* the environments a reset can meet: the idle poll only runs in WAIT_POLL,
\* and the line only matters when one of the first polls finds the bus idle
ResetEnvs(state) ==
  IF state = WAIT_POLL
    THEN {[NoEnv EXCEPT !.busy = b] : b \in 0..(MaxIdleLoops + 1)}
         \cup {[e EXCEPT !.busy = 1] : e \in LineEnvs}
    ELSE LineEnvs

\* the environments the reset inside a ROM command is run against
CommandEnvs(state) ==
  LET lines == {NoEnv, GoodEnv, Env(0, 0, 5, 30, 57)}
  IN IF state = WAIT_POLL
       THEN {[e EXCEPT !.busy = b] :
               e \in lines, b \in {0, 1, MaxIdleLoops + 1}}
       ELSE lines

\* the line sampled while the master holds it for the reset pulse
ResetHeldLine(env) ==
  [t \in 1..ResetHoldLoops |-> IF t = env.hi THEN 1 ELSE 0]

\* the line sampled after the master released it
ReleasedLine(env) ==
  [t \in 1..(PresenceLoops + ReleaseLoops + RestLoops) |->
     IF \/ env.d > 0 /\ env.d <= t /\ t < env.d + env.len
        \/ env.d > 0 /\ env.g > 0 /\ t = env.d + env.len + env.g
     THEN 0 ELSE 1]

-----------------------------------------------------------------------------
(* Reset *)

\* for (i = 0; !wire1ReadBit() && i < wire1_idleloops; i++);
\* the read slot issued with the counter at i is slot i + 1 of the poll
RECURSIVE Poll4IdleLoop(_, _, _)
Poll4IdleLoop(env, idleloops, i) ==
  IF ReadSlot[i + 1 <= env.busy] = 0 /\ i < idleloops
    THEN Poll4IdleLoop(env, idleloops, i + 1)
    ELSE i

\* wire1Poll4Idle leaving WAIT_POLL on a timeout as well
Poll4IdleResultToIdle(i, idleloops, state) ==
  IF i = idleloops
    THEN [ret |-> 0, state |-> IDLE, reads |-> i + 1]
    ELSE [ret |-> i, state |-> IDLE, reads |-> i + 1]

\* wire1Poll4Idle without the timeout test
Poll4IdleResultNoTimeout(i, idleloops, state) ==
  [ret |-> i, state |-> IDLE, reads |-> i + 1]

\* if (i == wire1_idleloops) return 0; else { wire1state = IDLE; return i; }
Poll4IdleResult(i, idleloops, state) ==
  IF i = idleloops
    THEN [ret |-> 0, state |-> state, reads |-> i + 1]
    ELSE [ret |-> i, state |-> IDLE, reads |-> i + 1]

\* uint16_t wire1Poll4Idle(void)
Poll4Idle(state, idleloops, env) ==
  Let(Poll4IdleLoop(env, idleloops, 0), LAMBDA i :
    Poll4IdleResult(i, idleloops, state))

\* wire1Reset entering ROM_COMMAND before it has seen a presence
ResetOutcomeWrongPhase(presence, release, rest) ==
  IF presence = 0 THEN [ret |-> 0, state |-> ROM_COMMAND]
  ELSE IF release = 0 THEN [ret |-> -1, state |-> IDLE]
  ELSE IF rest # 0 THEN [ret |-> -2, state |-> IDLE]
  ELSE [ret |-> 1, state |-> ROM_COMMAND]

\* the return value and the phase wire1Reset ends with, from what the three
\* polls after the release returned
ResetOutcome(presence, release, rest) ==
  IF presence = 0 THEN [ret |-> 0, state |-> IDLE]
  ELSE IF release = 0 THEN [ret |-> -1, state |-> IDLE]
  ELSE IF rest # 0 THEN [ret |-> -2, state |-> IDLE]
  ELSE [ret |-> 1, state |-> ROM_COMMAND]

\* a poll that was not run
NoPoll == [ret |-> 0, used |-> 0]

\* wire1Reset from wire1Hold() on: the reset pulse and the three polls
ResetSlot(env) ==
  Let(ReleasedLine(env), LAMBDA line :
  Let(Poll4Release(ResetHeldLine(env), 0, ResetHoldLoops), LAMBDA pulse :
  Let(Poll4Hold(line, 0, PresenceLoops), LAMBDA presence :
  Let(IF presence.ret = 0 THEN NoPoll
      ELSE Poll4Release(line, presence.used, ReleaseLoops), LAMBDA release :
  Let(IF release.ret = 0 THEN NoPoll
      ELSE Poll4Hold(line, presence.used + release.used, RestLoops),
      LAMBDA rest :
  Let(ResetOutcome(presence.ret, release.ret, rest.ret), LAMBDA out :
    [ret |-> out.ret, state |-> out.state, pulse |-> pulse.used,
     ops |-> [holds |-> 1, releases |-> 1, resets |-> 1,
              reads |-> 0, writes |-> 0,
              samples |-> pulse.used + presence.used
                          + release.used + rest.used]]))))))

\* wire1Reset without the idle poll
ResetUnpolled(state, idleloops, env) == ResetSlot(env)

\* int8_t wire1Reset(void)
Reset(state, idleloops, env) ==
  Let(IF state = WAIT_POLL THEN Poll4Idle(state, idleloops, env)
                           ELSE [ret |-> 1, state |-> state, reads |-> 0],
      LAMBDA idle :
        IF idle.ret = 0
          THEN [ret |-> -1, state |-> idle.state, pulse |-> 0,
                ops |-> OpsTimes(idle.reads, ReadBitOps)]
          ELSE Let(ResetSlot(env), LAMBDA slot :
                 [slot EXCEPT !.ops = OpsAdd(OpsTimes(idle.reads, ReadBitOps),
                                             @)]))

-----------------------------------------------------------------------------
(* Search *)

\* addrOut[iByte] |= BV(n)
OrBit(byte, n) == IF BitOf(byte, n) = 1 THEN byte ELSE byte + BV(n)

\* the values an 8-byte address buffer can hold
AddrBuffers == [1..AddrBytes -> 0..255]

\* writeBit at a conflict without the branch at the last conflict position
ConflictBitNoBranch(iBit, lastConf, from) ==
  IF lastConf = -1 THEN 0
  ELSE maskBitInArray(from, iBit)

\* writeBit at a conflict: 1 at the conflict position of the last search,
\* otherwise the bit of addrStart (the branch for lastConfPos == -1 compares
\* a uint8_t with -1)
ConflictBit(iBit, lastConf, from) ==
  IF iBit = lastConf THEN 1
  ELSE IF lastConf = -1 THEN 0
  ELSE maskBitInArray(from, iBit)

\* a conflict that stores its position whatever bit is written
ConflictPosAlways(iBit, lastConf, from, currConfPos) == iBit

\* a conflict that never stores its position
ConflictPosNotStored(iBit, lastConf, from, currConfPos) == currConfPos

\* currConfPos after a conflict at iBit
ConflictPos(iBit, lastConf, from, currConfPos) ==
  IF iBit # lastConf /\ lastConf # -1 /\ maskBitInArray(from, iBit) = 0
    THEN iBit ELSE currConfPos

\* a CRC test that accepts every address
AddrCrcAccepted(addr) == TRUE

\* addr[W1_ADDR_BYTE_CRC] == crc8(0, W1_CRC_POLYNOMIAL, addr, 7)
AddrCrcOk(addr) ==
  addr[W1_ADDR_BYTE_CRC + 1] = crc8(0, W1_CRC_POLYNOMIAL, addr, 7)

\* what the loop of wire1Search carries from turn to turn: addrOut, the
\* slaves still taking part, currConfPos, writeBit (the bit of the last write
\* slot, as 0 or nonzero), the number of turns completed, and done: FALSE
\* once the loop was left by "return -128"
SearchStates ==
  [done : BOOLEAN, addrOut : AddrBuffers, part : SUBSET Pool,
   currConfPos : 0..AddrBits, writeBit : 0..255, bits : 0..AddrBits]

\* the locals on entry of the loop: out is addrOut as the caller hands it
\* in, slavesIn the slaves answering the command; writeBit is not read
\* before a turn has set it
SearchEntry(out, slavesIn) ==
  [done |-> TRUE, addrOut |-> out, part |-> slavesIn,
   currConfPos |-> 64, writeBit |-> 0, bits |-> 0]

\* the rest of a turn that leaves addrOut as it is
SearchWriteNotStored(st, out, iBit, writeBit, currConfPos) ==
  [done |-> TRUE,
   addrOut |-> out,
   part |-> {s \in st.part : (PoolBit[s][iBit] = 1) <=> (writeBit # 0)},
   currConfPos |-> currConfPos,
   writeBit |-> writeBit,
   bits |-> iBit + 1]

\* the rest of a turn after which every slave goes on taking part
SearchWriteNoneLeaves(st, out, iBit, writeBit, currConfPos) ==
  [done |-> TRUE,
   addrOut |-> IF writeBit # 0
                 THEN [out EXCEPT ![(iBit \div 8) + 1] = OrBit(@, iBit % 8)]
                 ELSE out,
   part |-> st.part,
   currConfPos |-> currConfPos,
   writeBit |-> writeBit,
   bits |-> iBit + 1]

\* the rest of a turn of the loop, once writeBit is known
SearchWrite(st, out, iBit, writeBit, currConfPos) ==
  [done |-> TRUE,
   addrOut |-> IF writeBit # 0
                 THEN [out EXCEPT ![(iBit \div 8) + 1] = OrBit(@, iBit % 8)]
                 ELSE out,
   part |-> {s \in st.part : (PoolBit[s][iBit] = 1) <=> (writeBit # 0)},
   currConfPos |-> currConfPos,
   writeBit |-> writeBit,
   bits |-> iBit + 1]

\* a turn of the loop that takes two reads of 1 for a bit of 1
SearchTurnNoError(st, iBit, start, lastConf, alias) ==
  Let(IF iBit % 8 = 0 THEN [st.addrOut EXCEPT ![(iBit \div 8) + 1] = 0]
                      ELSE st.addrOut, LAMBDA out :
  Let(ReadSlot[\E s \in st.part : PoolBit[s][iBit] = 0], LAMBDA addrAck :
  Let(ReadSlot[\E s \in st.part : PoolBit[s][iBit] = 1], LAMBDA addrNAck :
    IF addrAck = 0 /\ addrNAck = 0
      THEN Let(IF alias THEN out ELSE start, LAMBDA from :
             SearchWrite(st, out, iBit, ConflictBit(iBit, lastConf, from),
                         ConflictPos(iBit, lastConf, from, st.currConfPos)))
    ELSE SearchWrite(st, out, iBit, addrAck, st.currConfPos))))

\* one turn of the loop, at bit iBit; start, lastConf: the cursor; alias:
\* addrStart points to addrOut
SearchTurn(st, iBit, start, lastConf, alias) ==
  Let(IF iBit % 8 = 0 THEN [st.addrOut EXCEPT ![(iBit \div 8) + 1] = 0]
                      ELSE st.addrOut, LAMBDA out :
  Let(ReadSlot[\E s \in st.part : PoolBit[s][iBit] = 0], LAMBDA addrAck :
  Let(ReadSlot[\E s \in st.part : PoolBit[s][iBit] = 1], LAMBDA addrNAck :
    IF addrAck = 0 /\ addrNAck = 0
      THEN Let(IF alias THEN out ELSE start, LAMBDA from :
             SearchWrite(st, out, iBit, ConflictBit(iBit, lastConf, from),
                         ConflictPos(iBit, lastConf, from, st.currConfPos)))
    ELSE IF addrAck # 0 /\ addrNAck # 0
      THEN [st EXCEPT !.done = FALSE, !.addrOut = out]
    ELSE SearchWrite(st, out, iBit, addrAck, st.currConfPos))))

\* for (int iBit = 0; iBit < 64; iBit++) { ... } of wire1Search.
\* out: addrOut on entry; slavesIn: the slaves answering the command
SearchLoop(out, slavesIn, start, lastConf, alias) ==
  LET loop[st \in SearchStates, iBit \in 0..AddrBits] ==
        IF iBit >= AddrBits \/ ~st.done THEN st
        ELSE loop[SearchTurn(st, iBit, start, lastConf, alias), iBit + 1]
  IN loop[SearchEntry(out, slavesIn), 0]

\* the operations of the search after its reset: the command byte, two
\* read slots a bit (the turn that ends with -128 included) and one write
\* slot for every turn completed
SearchOps(rom_command, l) ==
  OpsAdd(WriteByteOps(rom_command),
    OpsAdd(OpsTimes(2 * l.bits + (IF l.done THEN 0 ELSE 2), ReadBitOps),
           OpsTimes(l.bits, WriteBitOps(0))))

\* the end of wire1Search leaving the phase IDLE whatever it returns
SearchResultToIdle(done, crcOk, currConfPos, state) ==
  IF ~done THEN [ret |-> -128, state |-> IDLE]
  ELSE IF crcOk THEN [ret |-> currConfPos, state |-> IDLE]
  ELSE [ret |-> -1, state |-> IDLE]

\* the end of wire1Search entering FUNCTION_COMMAND whatever it returns
SearchResultSelects(done, crcOk, currConfPos, state) ==
  IF ~done THEN [ret |-> -128, state |-> FUNCTION_COMMAND]
  ELSE IF crcOk THEN [ret |-> currConfPos, state |-> FUNCTION_COMMAND]
  ELSE [ret |-> -1, state |-> FUNCTION_COMMAND]

\* the end of wire1Search: "return -128" out of the loop (done = FALSE), or
\* the CRC test after it; state: the phase the reset left
SearchResult(done, crcOk, currConfPos, state) ==
  IF ~done THEN [ret |-> -128, state |-> state]
  ELSE IF crcOk THEN [ret |-> currConfPos, state |-> FUNCTION_COMMAND]
  ELSE [ret |-> -1, state |-> IDLE]

\* wire1Search going on whatever its reset returned
wire1SearchUnchecked(in, rom_command) ==
  Let(Reset(in.state, in.idleloops, in.env), LAMBDA r :
  Let(SearchLoop(in.addrOut, in.part, in.addrStart, in.lastConfPos,
                 in.alias), LAMBDA l :
  Let(SearchResult(l.done, l.done /\ AddrCrcOk(l.addrOut),
                   l.currConfPos, r.state), LAMBDA res :
    [ret |-> res.ret, state |-> res.state,
     addrOut |-> l.addrOut, selected |-> l.part, pulse |-> r.pulse,
     bytes |-> <<rom_command>>,
     ops |-> OpsAdd(r.ops, SearchOps(rom_command, l))])))

\* static int8_t wire1Search(addrOut, addrStart, lastConfPos, rom_command)
\* in: [state, idleloops, env, addrOut, addrStart, lastConfPos, alias, part,
\*      selected]; part: the slaves that answer the ROM command
wire1Search(in, rom_command) ==
  Let(Reset(in.state, in.idleloops, in.env), LAMBDA r :
    IF r.ret # 1
      THEN [ret |-> -1, state |-> r.state, addrOut |-> in.addrOut,
            selected |-> IF r.pulse > 0 THEN {} ELSE in.selected,
            ops |-> r.ops, pulse |-> r.pulse, bytes |-> <<>>]
      ELSE
        Let(SearchLoop(in.addrOut, in.part, in.addrStart, in.lastConfPos,
                       in.alias), LAMBDA l :
        Let(SearchResult(l.done, l.done /\ AddrCrcOk(l.addrOut),
                         l.currConfPos, r.state), LAMBDA res :
          [ret |-> res.ret, state |-> res.state,
           addrOut |-> l.addrOut, selected |-> l.part, pulse |-> r.pulse,
           bytes |-> <<rom_command>>,
           ops |-> OpsAdd(r.ops, SearchOps(rom_command, l))])))

\* int8_t wire1SearchLargerROM(addrOut, addrStart, lastConfPos)
SearchLargerROM(in) == wire1Search(in, W1_ROMCMD_SEARCH)

\* an alarm search that takes no notice of lastConfPos
AlarmSearchAfresh(in) ==
  wire1Search([in EXCEPT !.lastConfPos = 255], W1_ROMCMD_ALARM)

\* int8_t wire1AlarmSearchLargerROM(addrOut, addrStart, lastConfPos)
AlarmSearchLargerROM(in) == wire1Search(in, W1_ROMCMD_ALARM)

-----------------------------------------------------------------------------
(* ROM commands and the function command *)

\* the 64 bits that wire1MatchROM puts on the line for addr
AddrOnLine(addr) ==
  [i \in 0..(AddrBits - 1) |-> WriteByte(addr[(i \div 8) + 1])[(i % 8) + 1]]

\* what a ROM command returns when its reset left another phase than
\* ROM_COMMAND; r: the reset
ResetFailed(in, r) ==
  [ret |-> -1, state |-> r.state,
   selected |-> IF r.pulse > 0 THEN {} ELSE in.selected,
   addrOut |-> in.addrOut, ops |-> r.ops, pulse |-> r.pulse, bytes |-> <<>>]

\* wire1MatchROM leaving addressed the slaves that were addressed before it
MatchROMKeepsSelected(in, addr) ==
  Let(Reset(in.state, in.idleloops, in.env), LAMBDA r :
    IF r.state # ROM_COMMAND
      THEN ResetFailed(in, r)
      ELSE [ret |-> 0, state |-> FUNCTION_COMMAND, selected |-> in.selected,
            addrOut |-> in.addrOut,
            ops |-> OpsAdd(r.ops, OpsAdd(WriteByteOps(W1_ROMCMD_MATCH),
                      OpsTimes(AddrBits, WriteBitOps(0)))),
            pulse |-> r.pulse,
            bytes |-> <<W1_ROMCMD_MATCH>> \o addr])

\* wire1MatchROM leaving every slave of the bus addressed
MatchROMAll(in, addr) ==
  Let(Reset(in.state, in.idleloops, in.env), LAMBDA r :
    IF r.state # ROM_COMMAND
      THEN ResetFailed(in, r)
      ELSE [ret |-> 0, state |-> FUNCTION_COMMAND, selected |-> in.part,
            addrOut |-> in.addrOut,
            ops |-> OpsAdd(r.ops, OpsAdd(WriteByteOps(W1_ROMCMD_MATCH),
                      OpsTimes(AddrBits, WriteBitOps(0)))),
            pulse |-> r.pulse,
            bytes |-> <<W1_ROMCMD_MATCH>> \o addr])

\* int8_t wire1MatchROM(uint8_t *const addr)
MatchROM(in, addr) ==
  Let(Reset(in.state, in.idleloops, in.env), LAMBDA r :
    IF r.state # ROM_COMMAND
      THEN ResetFailed(in, r)
      ELSE Let(AddrOnLine(addr), LAMBDA sent :
             [ret |-> 0, state |-> FUNCTION_COMMAND,
              selected |-> {s \in in.part :
                              \A i \in 0..(AddrBits - 1) :
                                 PoolBit[s][i] = sent[i]},
              addrOut |-> in.addrOut,
              ops |-> OpsAdd(r.ops, OpsAdd(WriteByteOps(W1_ROMCMD_MATCH),
                        OpsTimes(AddrBits, WriteBitOps(0)))),
              pulse |-> r.pulse,
              bytes |-> <<W1_ROMCMD_MATCH>> \o addr]))

\* wire1SkipROM without the test of the phase after the reset
SkipROMUnchecked(in) ==
  Let(Reset(in.state, in.idleloops, in.env), LAMBDA r :
    [ret |-> 0, state |-> FUNCTION_COMMAND, selected |-> in.part,
     addrOut |-> in.addrOut,
     ops |-> OpsAdd(r.ops, WriteByteOps(W1_ROMCMD_SKIP)),
     pulse |-> r.pulse, bytes |-> <<W1_ROMCMD_SKIP>>])

\* int8_t wire1SkipROM(void)
SkipROM(in) ==
  Let(Reset(in.state, in.idleloops, in.env), LAMBDA r :
    IF r.state # ROM_COMMAND
      THEN ResetFailed(in, r)
      ELSE [ret |-> 0, state |-> FUNCTION_COMMAND, selected |-> in.part,
            addrOut |-> in.addrOut,
            ops |-> OpsAdd(r.ops, WriteByteOps(W1_ROMCMD_SKIP)),
            pulse |-> r.pulse, bytes |-> <<W1_ROMCMD_SKIP>>])

\* the byte wire1ReadByte returns for byte i of the ROMs of the slaves part,
\* all of them answering in the same slots
ReadROMByte(part, i) ==
  ReadByte([j \in 1..8 |->
    ReadSlot[\E s \in part : PoolBit[s][8 * i + j - 1] = 0]])

\* the eight bytes wire1ReadSingleROM reads into addr
ReadROMBytes(part) ==
  <<ReadROMByte(part, 0), ReadROMByte(part, 1), ReadROMByte(part, 2),
    ReadROMByte(part, 3), ReadROMByte(part, 4), ReadROMByte(part, 5),
    ReadROMByte(part, 6), ReadROMByte(part, 7)>>

\* wire1ReadSingleROM without the test of the phase after the reset
ReadSingleROMUnchecked(in) ==
  Let(Reset(in.state, in.idleloops, in.env), LAMBDA r :
    Let(ReadROMBytes(in.part), LAMBDA addr :
    Let(AddrCrcOk(addr), LAMBDA crcOk :
      [ret |-> IF crcOk THEN 0 ELSE 1,
       state |-> IF crcOk THEN FUNCTION_COMMAND ELSE IDLE,
       selected |-> in.part, addrOut |-> addr,
       ops |-> OpsAdd(r.ops, OpsAdd(WriteByteOps(W1_ROMCMD_READ),
                 OpsTimes(AddrBits, ReadBitOps))),
       pulse |-> r.pulse, bytes |-> <<W1_ROMCMD_READ>>])))

\* int8_t wire1ReadSingleROM(uint8_t *const addr)
ReadSingleROM(in) ==
  Let(Reset(in.state, in.idleloops, in.env), LAMBDA r :
    IF r.state # ROM_COMMAND
      THEN ResetFailed(in, r)
      ELSE
        Let(ReadROMBytes(in.part), LAMBDA addr :
        Let(AddrCrcOk(addr), LAMBDA crcOk :
          [ret |-> IF crcOk THEN 0 ELSE 1,
           state |-> IF crcOk THEN FUNCTION_COMMAND ELSE IDLE,
           selected |-> in.part, addrOut |-> addr,
           ops |-> OpsAdd(r.ops, OpsAdd(WriteByteOps(W1_ROMCMD_READ),
                     OpsTimes(AddrBits, ReadBitOps))),
           pulse |-> r.pulse, bytes |-> <<W1_ROMCMD_READ>>])))

\* wire1ReadPowerSupply without the test of the phase
ReadPowerSupplyUnchecked(state, sel, para) ==
  [ret |-> IF ReadSlot[\E s \in sel : s \in para] = 0 THEN 1 ELSE 0,
   state |-> IDLE, selected |-> {}, addrOut |-> ZeroAddr,
   ops |-> OpsAdd(WriteByteOps(W1_FUNC_PARASITE_POWER), ReadBitOps),
   pulse |-> 0, bytes |-> <<W1_FUNC_PARASITE_POWER>>]

\* wire1ReadPowerSupply leaving the phase FUNCTION_COMMAND
ReadPowerSupplyKeepsPhase(state, sel, para) ==
  IF state # FUNCTION_COMMAND
    THEN [ret |-> -2, state |-> state, selected |-> sel, addrOut |-> ZeroAddr,
          ops |-> NoOps, pulse |-> 0, bytes |-> <<>>]
    ELSE
      [ret |-> IF ReadSlot[\E s \in sel : s \in para] = 0 THEN 1 ELSE 0,
       state |-> state, selected |-> sel, addrOut |-> ZeroAddr,
       ops |-> OpsAdd(WriteByteOps(W1_FUNC_PARASITE_POWER), ReadBitOps),
       pulse |-> 0, bytes |-> <<W1_FUNC_PARASITE_POWER>>]

\* int8_t wire1ReadPowerSupply(void)
ReadPowerSupply(state, sel, para) ==
  IF state # FUNCTION_COMMAND
    THEN [ret |-> -2, state |-> state, selected |-> sel, addrOut |-> ZeroAddr,
          ops |-> NoOps, pulse |-> 0, bytes |-> <<>>]
    ELSE
      [ret |-> IF ReadSlot[\E s \in sel : s \in para] = 0 THEN 1 ELSE 0,
       state |-> IDLE, selected |-> {}, addrOut |-> ZeroAddr,
       ops |-> OpsAdd(WriteByteOps(W1_FUNC_PARASITE_POWER), ReadBitOps),
       pulse |-> 0, bytes |-> <<W1_FUNC_PARASITE_POWER>>]

-----------------------------------------------------------------------------
(* The state machine.  wire1state and wire1_idleloops are the statics of   *)
(* the engine.  The bus is fixed from the start: slaves are the devices on *)
(* it, parasite those of them that draw parasite power, alarm those with   *)
(* an alarm pending; selected are the slaves the last ROM command left     *)
(* addressed.  addrStart, lastConfPos and found belong to a caller that    *)
(* enumerates the bus; call is the record of the last call.                *)

\* the devices the engine specification draws its bus from
EnginePool == {1, 2, 6}
\* the devices of the pool that draw parasite power / have an alarm pending
ParasitePowered == {2, 5}
Alarming == {1, 3, 4}

\* the record kept of an engine call: its name, the phase, the poll budget
\* and the addressed slaves it started with, the line it met, what it
\* returned, what it did on the line, the bytes it sent and the address
\* buffer it leaves; after: for the function command, the call it follows
Called(name, env, r) ==
  [name |-> name, pre |-> wire1state, loops |-> wire1_idleloops, env |-> env,
   ret |-> r.ret, ops |-> r.ops, pulse |-> r.pulse, bytes |-> r.bytes,
   addr |-> r.addrOut, sel |-> selected, after |-> "none"]

NoCall ==
  [name |-> "none", pre |-> IDLE, loops |-> 0, env |-> NoEnv,
   ret |-> 0, ops |-> NoOps, pulse |-> 0, bytes |-> <<>>, addr |-> ZeroAddr,
   sel |-> {}, after |-> "none"]

\* the arguments and the surroundings of a ROM command
In(env, part, start, last) ==
  [state |-> wire1state, idleloops |-> wire1_idleloops, env |-> env,
   addrOut |-> ZeroAddr, addrStart |-> start, lastConfPos |-> last,
   alias |-> FALSE, part |-> part, selected |-> selected]

\* no crc8 computation, no byte written
NoCrc == [seed |-> 0, polynomial |-> 0, data |-> <<>>, remainder |-> 0,
          calls |-> 0, checked |-> FALSE]
NoEcho == [written |-> -1, at |-> 0, slave |-> -1, read |-> -1,
           wrote |-> <<>>, slots |-> <<>>, ops |-> NoOps]
\* no caller retrying a reset, none between a match and its function command
NoCaller == [retry |-> FALSE, stage |-> "none", target |-> 0,
             between |-> FALSE]
\* no search in progress
NoSearch == [stage |-> "none", st |-> SearchEntry(ZeroAddr, {})]
\* no poll and no read slot issued
NoProbe == [op |-> "none", line |-> <<>>, bits |-> <<>>, nloops |-> 0,
            ret |-> 0]

InitBus(pool, n) ==
  /\ crc = NoCrc
  /\ echo = NoEcho
  /\ caller = NoCaller
  /\ search = NoSearch
  /\ probe = NoProbe
  /\ wire1state = IDLE
  /\ wire1_idleloops = 0
  /\ slaves \in {S \in SUBSET pool : Cardinality(S) <= n}
  /\ parasite = slaves \cap ParasitePowered
  /\ alarm = slaves \cap Alarming
  /\ selected = {}
  /\ addrStart = ZeroAddr
  /\ found = <<>>
  /\ call = NoCall

Init ==
  /\ InitBus(EnginePool, MaxSlaves)
  /\ lastConfPos = 255

\* a caller about to enumerate the bus: a zeroed addrStart and a lastConfPos
\* above 63
InitChain ==
  /\ InitBus(Compliant, MaxChainSlaves)
  /\ lastConfPos \in {64, 255}

wire1Reset ==
  \E env \in ResetEnvs(wire1state) :
    \E r \in {Reset(wire1state, wire1_idleloops, env)} :
       /\ wire1state' = r.state
       /\ selected' = IF r.pulse > 0 THEN {} ELSE selected
       /\ call' = Called("wire1Reset", env,
                      [ret |-> r.ret, ops |-> r.ops, pulse |-> r.pulse,
                       bytes |-> <<>>, addrOut |-> ZeroAddr])
       /\ UNCHANGED <<crc, echo, search, probe, caller, wire1_idleloops, slaves, parasite, alarm, addrStart,
                      lastConfPos, found>>

wire1SetupPoll4Idle ==
  \E nloops \in 0..MaxIdleLoops :
    /\ wire1state' = WAIT_POLL
    /\ wire1_idleloops' = nloops
    /\ call' = Called("wire1SetupPoll4Idle", NoEnv,
                      [ret |-> 0, ops |-> NoOps, pulse |-> 0, bytes |-> <<>>,
                       addrOut |-> ZeroAddr])
    /\ UNCHANGED <<crc, echo, search, probe, caller, slaves, parasite, alarm, selected,
                   addrStart,
                   lastConfPos, found>>

\* a single search, started afresh
wire1SearchLargerROM ==
  \E env \in CommandEnvs(wire1state) :
    \E r \in {SearchLargerROM(In(env, slaves, ZeroAddr, 255))} :
       /\ wire1state' = r.state
       /\ selected' = r.selected
       /\ call' = Called("wire1SearchLargerROM", env, r)
       /\ UNCHANGED <<crc, echo, search, probe, caller, wire1_idleloops, slaves, parasite, alarm, addrStart,
                      lastConfPos, found>>

\* a single alarm search, started afresh: only the slaves with an alarm
\* pending answer it
wire1AlarmSearchLargerROM ==
  \E env \in CommandEnvs(wire1state) :
    \E r \in {AlarmSearchLargerROM(In(env, alarm, ZeroAddr, 255))} :
       /\ wire1state' = r.state
       /\ selected' = r.selected
       /\ call' = Called("wire1AlarmSearchLargerROM", env, r)
       /\ UNCHANGED <<crc, echo, search, probe, caller, wire1_idleloops, slaves, parasite, alarm, addrStart,
                      lastConfPos, found>>

wire1ReadSingleROM ==
  \E env \in CommandEnvs(wire1state) :
    \E r \in {ReadSingleROM(In(env, slaves, ZeroAddr, 255))} :
       /\ wire1state' = r.state
       /\ selected' = r.selected
       /\ call' = Called("wire1ReadSingleROM", env, r)
       /\ UNCHANGED <<crc, echo, search, probe, caller, wire1_idleloops, slaves, parasite, alarm, addrStart,
                      lastConfPos, found>>

wire1MatchROM ==
  \E env \in CommandEnvs(wire1state), d \in EnginePool :
    \E r \in {MatchROM(In(env, slaves, ZeroAddr, 255), PoolAddr[d])} :
       /\ wire1state' = r.state
       /\ selected' = r.selected
       /\ call' = Called("wire1MatchROM", env, r)
       /\ UNCHANGED <<crc, echo, search, probe, caller, wire1_idleloops, slaves, parasite, alarm, addrStart,
                      lastConfPos, found>>

wire1SkipROM ==
  \E env \in CommandEnvs(wire1state) :
    \E r \in {SkipROM(In(env, slaves, ZeroAddr, 255))} :
       /\ wire1state' = r.state
       /\ selected' = r.selected
       /\ call' = Called("wire1SkipROM", env, r)
       /\ UNCHANGED <<crc, echo, search, probe, caller, wire1_idleloops, slaves, parasite, alarm, addrStart,
                      lastConfPos, found>>

wire1ReadPowerSupply ==
  \E r \in {ReadPowerSupply(wire1state, selected, parasite)} :
     /\ wire1state' = r.state
     /\ selected' = r.selected
     /\ call' = [Called("wire1ReadPowerSupply", NoEnv, r)
                   EXCEPT !.after = call.name]
     /\ UNCHANGED <<crc, echo, search, probe, caller, wire1_idleloops, slaves, parasite, alarm, addrStart,
                    lastConfPos, found>>

Next ==
  \/ wire1Reset
  \/ wire1SetupPoll4Idle
  \/ wire1SearchLargerROM
  \/ wire1AlarmSearchLargerROM
  \/ wire1ReadSingleROM
  \/ wire1MatchROM
  \/ wire1SkipROM
  \/ wire1ReadPowerSupply

Spec == Init /\ [][Next]_vars

\* The next call of a caller that enumerates the bus with
\* wire1SearchLargerROM: it passes the address and the conflict position of
\* its last successful call, addrStart being a buffer of its own, and stops
\* after the call that returned 64.
SearchNext ==
  /\ found = <<>> \/ lastConfPos < AddrBits
  /\ Len(found) < MaxChainCalls
  /\ \E r \in {SearchLargerROM(In(GoodEnv, slaves, addrStart, lastConfPos))},
        ok \in BOOLEAN :
        /\ ok = (r.ret >= 0)
        /\ wire1state' = r.state
        /\ selected' = r.selected
        /\ addrStart' = IF ok THEN r.addrOut ELSE addrStart
        /\ lastConfPos' = IF ok THEN r.ret ELSE lastConfPos
        /\ found' = IF ok THEN Append(found, r.addrOut) ELSE found
        /\ call' = Called("wire1SearchLargerROM", GoodEnv, r)
        /\ UNCHANGED <<crc, echo, search, probe, caller, wire1_idleloops, slaves, parasite, alarm>>

NextChain == SearchNext

SpecChain == InitChain /\ [][NextChain]_vars

-----------------------------------------------------------------------------
(* A caller's running crc8 computation: it starts from a seed, hands the     *)
(* data to crc8 chunk by chunk with the last return value as crcIn, and may  *)
(* store the CRC of 7 bytes as the 8th byte and check the 8 bytes.           *)

\* the seeds, polynomials and data bytes the computations are run on
CrcSeeds == {0, 1, 255}
CrcPolynomials == {W1_CRC_POLYNOMIAL, 49}
CrcBytes == {0, 40, 255}

\* the chunks of data handed to one call of crc8
CrcChunks == UNION {[1..n -> CrcBytes] : n \in 0..MaxCrcChunk}

\* the engine at rest on an empty bus
InitIdle ==
  /\ wire1state = IDLE
  /\ wire1_idleloops = 0
  /\ slaves = {}
  /\ parasite = {}
  /\ alarm = {}
  /\ selected = {}
  /\ addrStart = ZeroAddr
  /\ lastConfPos = 255
  /\ found = <<>>
  /\ call = NoCall
  /\ caller = NoCaller
  /\ search = NoSearch
  /\ probe = NoProbe

InitCrc ==
  /\ InitIdle
  /\ echo = NoEcho
  /\ \E s \in CrcSeeds, p \in CrcPolynomials :
       crc = [seed |-> s, polynomial |-> p, data |-> <<>>, remainder |-> s,
              calls |-> 0, checked |-> FALSE]

\* remainder = crc8(remainder, polynomial, chunk, size): one more chunk
crc8Chunk ==
  /\ ~crc.checked
  /\ \E chunk \in CrcChunks :
       /\ Len(crc.data) + Len(chunk) < AddrBytes
       /\ crc' = [crc EXCEPT
                    !.remainder = crc8(@, crc.polynomial, chunk, Len(chunk)),
                    !.data = @ \o chunk,
                    !.calls = IF @ < 2 THEN @ + 1 ELSE @]
  /\ UNCHANGED <<engine, echo, probe>>

\* data[7] = crc8(seed, polynomial, data, 7), then
\* remainder = crc8(seed, polynomial, data, 8) over the stored bytes
crc8Check ==
  /\ ~crc.checked
  /\ Len(crc.data) = W1_ADDR_BYTE_CRC
  /\ \E stored \in {Append(crc.data,
                           crc8(crc.seed, crc.polynomial, crc.data,
                                W1_ADDR_BYTE_CRC))} :
       crc' = [crc EXCEPT
                 !.data = stored,
                 !.remainder = crc8(crc.seed, crc.polynomial, stored,
                                    AddrBytes),
                 !.checked = TRUE]
  /\ UNCHANGED <<engine, echo, probe>>

NextCrc == crc8Chunk \/ crc8Check

SpecCrc == InitCrc /\ [][NextCrc]_vars

-----------------------------------------------------------------------------
(* A byte written to a slave that sends it back.  In a write slot the slave *)
(* samples the line once, at one of the samples of SlaveSamples after the   *)
(* master pulled the line low; it answers read slot i with bit i of the     *)
(* byte it received, pulling the line low for a 0.                          *)

\* the samples of a write slot at which a slave may read the line
SlaveSamples == 4..7

\* the line of a write slot after wire1Hold(): released at once for a
\* nonzero bit, held through the poll for a zero bit
WriteSlotLine(bit) == [t \in 1..WriteLoops |-> IF bit # 0 THEN 1 ELSE 0]

\* the byte a slave receives from wire1WriteByte(writeByte) when it samples
\* the write slots at sample at: bit i from write slot i
SlaveByte(writeByte, at) ==
  LET got == [i \in 1..8 |-> LineAt(WriteSlotLine(WriteByte(writeByte)[i]), at)]
      sum[i \in 0..8] == IF i = 0 THEN 0 ELSE sum[i - 1] + got[i] * BV(i - 1)
  IN sum[8]

\* what the read slots of wire1ReadByte return when the slave sends byte
EchoSlots(byte) == [i \in 1..8 |-> ReadSlot[BitOf(byte, i - 1) = 0]]

\* the byte wire1ReadByte returns when the slave sends byte
EchoByte(byte) == ReadByte(EchoSlots(byte))

InitEcho ==
  /\ InitIdle
  /\ crc = NoCrc
  /\ echo = NoEcho

\* void wire1WriteByte(uint8_t writeByte), to a slave that echoes
wire1WriteByte ==
  /\ echo.written < 0
  /\ \E b \in 0..255, at \in SlaveSamples :
       echo' = [written |-> b, at |-> at, slave |-> SlaveByte(b, at),
                read |-> -1, wrote |-> WriteByte(b), slots |-> <<>>,
                ops |-> WriteByteOps(b)]
  /\ UNCHANGED <<engine, crc, probe>>

\* uint8_t wire1ReadByte(void), right after wire1WriteByte
wire1ReadByte ==
  /\ echo.written >= 0
  /\ echo.read < 0
  /\ echo' = [echo EXCEPT !.read = EchoByte(echo.slave),
                          !.slots = EchoSlots(echo.slave),
                          !.ops = OpsTimes(Len(EchoSlots(echo.slave)),
                                           ReadBitOps)]
  /\ UNCHANGED <<engine, crc, probe>>

NextEcho == wire1WriteByte \/ wire1ReadByte

SpecEcho == InitEcho /\ [][NextEcho]_vars

-----------------------------------------------------------------------------
(* A caller that retries the reset after a failed operation: once it has     *)
(* started it does nothing but call wire1Reset, on a bus that is idle and    *)
(* answers the reset pulse with a presence pulse in time.  Before that the   *)
(* engine is called as in Spec.  The caller keeps retrying, hence the weak   *)
(* fairness of its retry.                                                    *)

\* the call recorded in c failed
Failed(c) ==
  \/ c.name = "wire1Reset" /\ c.ret # 1
  \/ c.name \in {"wire1SearchLargerROM", "wire1AlarmSearchLargerROM",
                 "wire1ReadSingleROM", "wire1MatchROM", "wire1SkipROM",
                 "wire1ReadPowerSupply"} /\ c.ret < 0

\* wire1Reset called again by the retrying caller
RetryReset ==
  /\ slaves \cap Compliant # {}
  /\ caller.retry \/ Failed(call)
  /\ \E r \in {Reset(wire1state, wire1_idleloops, GoodEnv)} :
       /\ wire1state' = r.state
       /\ selected' = IF r.pulse > 0 THEN {} ELSE selected
       /\ call' = Called("wire1Reset", GoodEnv,
                      [ret |-> r.ret, ops |-> r.ops, pulse |-> r.pulse,
                       bytes |-> <<>>, addrOut |-> ZeroAddr])
       /\ caller' = [caller EXCEPT !.retry = TRUE]
       /\ UNCHANGED <<crc, echo, search, probe, wire1_idleloops, slaves, parasite, alarm,
                      addrStart, lastConfPos, found>>

NextRetry ==
  \/ ~caller.retry /\ wire1Reset
  \/ ~caller.retry /\ wire1SetupPoll4Idle
  \/ ~caller.retry /\ wire1SkipROM
  \/ ~caller.retry /\ wire1ReadPowerSupply
  \/ RetryReset

SpecRetry == Init /\ [][NextRetry]_vars /\ WF_vars(RetryReset)

-----------------------------------------------------------------------------
(* Two logical callers of the one engine, without a lock: their complete     *)
(* calls interleave.  Caller A addresses a slave with wire1MatchROM and then *)
(* asks for its power supply; caller B issues ROM commands and function      *)
(* commands of its own at any time.  Both share wire1state and the bus.      *)

\* caller A: wire1MatchROM of a slave on the bus
AMatchROM ==
  /\ caller.stage # "matched"
  /\ \E d \in slaves :
       \E r \in {MatchROM(In(GoodEnv, slaves, ZeroAddr, 255), PoolAddr[d])} :
          /\ wire1state' = r.state
          /\ selected' = r.selected
          /\ call' = Called("wire1MatchROM", GoodEnv, r)
          /\ caller' = [caller EXCEPT
                          !.stage = IF r.ret = 0 THEN "matched" ELSE "none",
                          !.target = d, !.between = FALSE]
          /\ UNCHANGED <<crc, echo, search, probe, wire1_idleloops, slaves, parasite, alarm,
                         addrStart, lastConfPos, found>>

\* caller A: wire1ReadPowerSupply as its next call after its wire1MatchROM
AReadPowerSupply ==
  /\ caller.stage = "matched"
  /\ \E r \in {ReadPowerSupply(wire1state, selected, parasite)} :
       /\ wire1state' = r.state
       /\ selected' = r.selected
       /\ call' = [Called("wire1ReadPowerSupply", NoEnv, r)
                     EXCEPT !.after = call.name]
       /\ caller' = [caller EXCEPT !.stage = "asked"]
       /\ UNCHANGED <<crc, echo, search, probe, wire1_idleloops, slaves, parasite, alarm,
                      addrStart, lastConfPos, found>>

\* what a call of caller B does to caller A: it comes between A's match and
\* A's function command, or it ends A's turn
Interleaved ==
  IF caller.stage = "matched" THEN [caller EXCEPT !.between = TRUE]
                              ELSE NoCaller

\* caller B: wire1MatchROM of a slave on the bus
BMatchROM ==
  \E d \in slaves :
    \E r \in {MatchROM(In(GoodEnv, slaves, ZeroAddr, 255), PoolAddr[d])} :
       /\ wire1state' = r.state
       /\ selected' = r.selected
       /\ call' = Called("wire1MatchROM", GoodEnv, r)
       /\ caller' = Interleaved
       /\ UNCHANGED <<crc, echo, search, probe, wire1_idleloops, slaves, parasite, alarm,
                      addrStart, lastConfPos, found>>

\* caller B: wire1SkipROM
BSkipROM ==
  \E r \in {SkipROM(In(GoodEnv, slaves, ZeroAddr, 255))} :
     /\ wire1state' = r.state
     /\ selected' = r.selected
     /\ call' = Called("wire1SkipROM", GoodEnv, r)
     /\ caller' = Interleaved
     /\ UNCHANGED <<crc, echo, search, probe, wire1_idleloops, slaves, parasite, alarm,
                    addrStart, lastConfPos, found>>

\* caller B: wire1ReadPowerSupply
BReadPowerSupply ==
  \E r \in {ReadPowerSupply(wire1state, selected, parasite)} :
     /\ wire1state' = r.state
     /\ selected' = r.selected
     /\ call' = [Called("wire1ReadPowerSupply", NoEnv, r)
                   EXCEPT !.after = call.name]
     /\ caller' = Interleaved
     /\ UNCHANGED <<crc, echo, search, probe, wire1_idleloops, slaves, parasite, alarm,
                    addrStart, lastConfPos, found>>

NextTwo ==
  \/ AMatchROM
  \/ AReadPowerSupply
  \/ BMatchROM
  \/ BSkipROM
  \/ BReadPowerSupply

\* a bus of up to MaxChainSlaves compliant slaves, the engine at rest
InitTwo ==
  /\ InitBus(Compliant, MaxChainSlaves)
  /\ lastConfPos = 255

SpecTwo == InitTwo /\ [][NextTwo]_vars

-----------------------------------------------------------------------------
(* wire1SearchLargerROM turn by turn: the reset and the command byte, then   *)
(* the turns of the bit loop one at a time, then the CRC test and the        *)
(* return.  The caller hands in a cursor of its choice: addrStart, a buffer  *)
(* of its own, and lastConfPos.                                              *)

\* the start addresses and the conflict positions the caller hands in
TurnStarts == {ZeroAddr, PoolAddr[2], PoolAddr[3]}
TurnPositions == {255, 0, 1}

\* the engine at rest on a bus of 1..MaxChainSlaves compliant slaves
InitTurn ==
  /\ crc = NoCrc
  /\ echo = NoEcho
  /\ caller = NoCaller
  /\ search = NoSearch
  /\ probe = NoProbe
  /\ wire1state = IDLE
  /\ wire1_idleloops = 0
  /\ slaves \in {S \in SUBSET Compliant :
                   Cardinality(S) \in 1..MaxChainSlaves}
  /\ parasite = slaves \cap ParasitePowered
  /\ alarm = slaves \cap Alarming
  /\ selected = {}
  /\ addrStart \in TurnStarts
  /\ lastConfPos \in TurnPositions
  /\ found = <<>>
  /\ call = NoCall

\* wire1Search up to the loop: the reset has returned 1 and the command byte
\* is written
SearchBegin ==
  /\ search.stage = "none"
  /\ \E r \in {Reset(wire1state, wire1_idleloops, GoodEnv)} :
       /\ r.ret = 1
       /\ wire1state' = r.state
       /\ selected' = slaves
       /\ search' = [stage |-> "loop", st |-> SearchEntry(ZeroAddr, slaves)]
  /\ UNCHANGED <<crc, echo, caller, probe, wire1_idleloops, slaves, parasite,
                 alarm, addrStart, lastConfPos, found, call>>

\* one turn of the loop
SearchBit ==
  /\ search.stage = "loop"
  /\ search.st.done
  /\ search.st.bits < AddrBits
  /\ \E st \in {SearchTurn(search.st, search.st.bits, addrStart, lastConfPos,
                           FALSE)} :
       /\ search' = [search EXCEPT !.st = st]
       /\ selected' = st.part
  /\ UNCHANGED <<crc, echo, caller, probe, wire1state, wire1_idleloops,
                 slaves, parasite, alarm, addrStart, lastConfPos, found,
                 call>>

\* the loop is left: "return -128", or the CRC test and the return after it
SearchReturn ==
  /\ search.stage = "loop"
  /\ ~search.st.done \/ search.st.bits >= AddrBits
  /\ \E res \in {SearchResult(search.st.done,
                              search.st.done /\ AddrCrcOk(search.st.addrOut),
                              search.st.currConfPos, wire1state)} :
       /\ wire1state' = res.state
       /\ call' = Called("wire1SearchLargerROM", GoodEnv,
                         [ret |-> res.ret, addrOut |-> search.st.addrOut,
                          pulse |-> ResetSlot(GoodEnv).pulse,
                          bytes |-> <<W1_ROMCMD_SEARCH>>,
                          ops |-> OpsAdd(ResetSlot(GoodEnv).ops,
                                    SearchOps(W1_ROMCMD_SEARCH, search.st))])
       /\ search' = [search EXCEPT !.stage = "returned"]
  /\ UNCHANGED <<crc, echo, caller, probe, wire1_idleloops, slaves, parasite,
                 alarm, selected, addrStart, lastConfPos, found>>

NextTurn ==
  \/ SearchBegin
  \/ SearchBit
  \/ SearchReturn

SpecTurn == InitTurn /\ [][NextTurn]_vars

-----------------------------------------------------------------------------
(* The polls and the read slot on their own, on a line of the caller's     *)
(* choice.                                                                 *)

\* the lines a poll samples
PollLines == [1..MaxPollLoops -> {0, 1}]

\* the line of a read slot that is low at sample t alone (t = 0: never)
GlitchLine(t) == [u \in 1..ReadSamples |-> IF u = t THEN 0 ELSE 1]

\* the bit values of the slaves that answer a read slot together
AnsweringBits == UNION {[1..n -> {0, 1}] : n \in 0..MaxAnswering}

\* the line of a read slot answered by slaves with the bit values bits: the
\* open-drain line is low while one of them pulls it low
AnsweredLine(bits) ==
  [t \in 1..ReadSamples |->
     IF \E i \in DOMAIN bits : SlotLine(bits[i] = 0)[t] = 0 THEN 0 ELSE 1]

InitProbe ==
  /\ InitIdle
  /\ crc = NoCrc
  /\ echo = NoEcho

\* uint8_t wire1Poll4Hold(uint8_t nloops)
wire1Poll4Hold ==
  /\ \E line \in PollLines, nloops \in 0..MaxPollLoops :
       probe' = [op |-> "wire1Poll4Hold", line |-> line, bits |-> <<>>,
                 nloops |-> nloops, ret |-> Poll4Hold(line, 0, nloops).ret]
  /\ UNCHANGED <<engine, crc, echo>>

\* uint8_t wire1Poll4Release(uint8_t nloops)
wire1Poll4Release ==
  /\ \E line \in PollLines, nloops \in 0..MaxPollLoops :
       probe' = [op |-> "wire1Poll4Release", line |-> line, bits |-> <<>>,
                 nloops |-> nloops, ret |-> Poll4Release(line, 0, nloops).ret]
  /\ UNCHANGED <<engine, crc, echo>>

\* uint8_t wire1ReadBit(void), on a line with a single low sample or on one
\* that slaves answer
wire1ReadBit ==
  /\ \/ \E t \in 0..ReadSamples :
          probe' = [op |-> "wire1ReadBit", line |-> GlitchLine(t),
                    bits |-> <<>>, nloops |-> 0,
                    ret |-> ReadBit(GlitchLine(t))]
     \/ \E bits \in AnsweringBits :
          probe' = [op |-> "wire1ReadBit", line |-> AnsweredLine(bits),
                    bits |-> bits, nloops |-> 0,
                    ret |-> ReadBit(AnsweredLine(bits))]
  /\ UNCHANGED <<engine, crc, echo>>

NextProbe ==
  \/ wire1Poll4Hold
  \/ wire1Poll4Release
  \/ wire1ReadBit

SpecProbe == InitProbe /\ [][NextProbe]_vars

-----------------------------------------------------------------------------
(* What the line of a call showed, read off the line itself *)

\* the first of the n samples after sample from at which line is at level,
\* 0 when none of them is
FirstAt(line, from, n, level) ==
  LET hits == {t \in (from + 1)..(from + n) : LineAt(line, t) = level}
  IN IF hits = {} THEN 0 ELSE CHOOSE t \in hits : \A u \in hits : t <= u

\* the sample of the presence window at which the line is first low
PresenceAt(env) == FirstAt(ReleasedLine(env), 0, PresenceLoops, 0)

\* the sample of the release window at which the line is first high again
ReleaseAt(env) ==
  IF PresenceAt(env) = 0 THEN 0
  ELSE FirstAt(ReleasedLine(env), PresenceAt(env), ReleaseLoops, 1)

\* the line is low once more in the rest of the slot
LowInRest(env) ==
  /\ ReleaseAt(env) # 0
  /\ FirstAt(ReleasedLine(env), ReleaseAt(env), RestLoops, 0) # 0

\* the first idleloops read slots of the idle poll are all answered with 0
NeverIdle(env, idleloops) == \A j \in 1..idleloops : j <= env.busy

\* nothing was done on the line
NoTraffic(ops) == ops.holds = 0 /\ ops.releases = 0 /\ ops.samples = 0

RomCommands == {"wire1SearchLargerROM", "wire1AlarmSearchLargerROM",
                "wire1ReadSingleROM", "wire1MatchROM", "wire1SkipROM"}

\* the addresses of the slaves on the bus
BusAddrs == {PoolAddr[s] : s \in slaves}

\* bit n (0..63) of an address, bit 0 of byte 0 first
AddrBit(addr, n) == BitOf(addr[(n \div 8) + 1], n % 8)

\* a < b as 64-bit numbers, byte 0 the least significant byte
NumLess(a, b) ==
  \E i \in 1..AddrBytes :
    /\ a[i] < b[i]
    /\ \A j \in (i + 1)..AddrBytes : a[j] = b[j]

\* a before b in the order of the search: at the first bit, counted from bit
\* 0 of byte 0, at which they differ, a has 0 and b has 1
BitLess(a, b) ==
  \E n \in 0..(AddrBits - 1) :
    /\ AddrBit(a, n) = 0 /\ AddrBit(b, n) = 1
    /\ \A m \in 0..(n - 1) : AddrBit(a, m) = AddrBit(b, m)

\* the slaves of the bus whose address has the bits 0..n-1 of addr: those
\* that still take part in a search at bit n when addr is what it finds
Following(addr, n) ==
  {s \in slaves :
     \A m \in 0..(n - 1) : AddrBit(PoolAddr[s], m) = AddrBit(addr, m)}

\* what the first and the second read slot of the turn at bit n show when
\* the slaves part take part: a slave pulls the line low in the first for a 0
\* at bit n of its address, in the second for a 1
TurnAck(part, n) == ReadBit(SlotLine(\E s \in part : PoolBit[s][n] = 0))
TurnNAck(part, n) == ReadBit(SlotLine(\E s \in part : PoolBit[s][n] = 1))

\* the conflicts on the way to addr at which 0 was written following start:
\* the positions other than last at which the slaves that follow addr have
\* both bit values and start has 0
ZeroBranches(addr, start, last) ==
  {n \in 0..(AddrBits - 1) :
     /\ n # last
     /\ TurnAck(Following(addr, n), n) = 0
     /\ TurnNAck(Following(addr, n), n) = 0
     /\ AddrBit(start, n) = 0}

\* the largest element of a set of positions, NoConflict when it is empty
HighestOr64(P) ==
  IF P = {} THEN NoConflict ELSE CHOOSE n \in P : \A m \in P : m <= n

\* the command byte of a ROM command
RomCommandByte(name) ==
  IF name = "wire1SearchLargerROM" THEN W1_ROMCMD_SEARCH
  ELSE IF name = "wire1AlarmSearchLargerROM" THEN W1_ROMCMD_ALARM
  ELSE IF name = "wire1ReadSingleROM" THEN W1_ROMCMD_READ
  ELSE IF name = "wire1MatchROM" THEN W1_ROMCMD_MATCH
  ELSE W1_ROMCMD_SKIP

-----------------------------------------------------------------------------
(* Claims *)

\* C1 (as stated; SpecChain): a chain of searches over a bus of N >= 1 slaves
\* succeeds at every call, returns addresses of the bus, none of them twice,
\* and has returned 64 exactly when it has returned all N addresses.
C1_ChainEnumeratesBus ==
  (slaves # {} /\ call.name = "wire1SearchLargerROM") =>
    /\ call.ret >= 0
    /\ \A i \in 1..Len(found) : found[i] \in BusAddrs
    /\ \A i, j \in 1..Len(found) : i # j => found[i] # found[j]
    /\ (lastConfPos = NoConflict) <=> (Len(found) = Cardinality(slaves))

\* C1: the chain over the slaves 02.., 01.., 03.. has ended with 64 after two
\* addresses
C1_ChainEndsEarly ==
  /\ slaves = {1, 2, 3}
  /\ lastConfPos = NoConflict
  /\ Len(found) = 2

C3_PowerSupplyPhase ==
  (call.name = "wire1ReadPowerSupply" /\ call.pre # FUNCTION_COMMAND) =>
    /\ call.ret = -2
    /\ NoTraffic(call.ops)
    /\ wire1state = call.pre

\* C3: wire1ReadPowerSupply was called right after a reset found a presence
C3_PowerSupplyInRomCommand ==
  /\ call.name = "wire1ReadPowerSupply"
  /\ call.pre = ROM_COMMAND
  /\ call.ret = -2

\* C4 (amended): a ROM command runs a reset of its own whatever the phase;
\* when that reset does not end in ROM_COMMAND the command returns -1, sends
\* no command byte and does nothing on the line but that reset.
C4_RomCommandAfterFailedReset ==
  (/\ call.name \in RomCommands
   /\ Reset(call.pre, call.loops, call.env).state # ROM_COMMAND) =>
    /\ call.ret = -1
    /\ call.bytes = <<>>
    /\ call.ops = Reset(call.pre, call.loops, call.env).ops

\* C4 (as stated): a ROM command called in a phase other than ROM_COMMAND
\* fails and does nothing on the line.
C4_RomCommandPhase ==
  (call.name \in RomCommands /\ call.pre # ROM_COMMAND) =>
    /\ call.ret < 0
    /\ NoTraffic(call.ops)

\* C4: wire1MatchROM was called in FUNCTION_COMMAND, pulsed the reset, saw
\* no presence and failed
C4_MatchFailsAfterReset ==
  /\ call.name = "wire1MatchROM"
  /\ call.pre = FUNCTION_COMMAND
  /\ call.ops.resets = 1
  /\ call.ret = -1

\* C5: wire1Reset called in IDLE, ROM_COMMAND or FUNCTION_COMMAND on a line
\* that is at no sample of the presence window low returns 0 and leaves the
\* phase IDLE.
C5_NoPresence ==
  (/\ call.name = "wire1Reset"
   /\ call.pre \in {IDLE, ROM_COMMAND, FUNCTION_COMMAND}
   /\ PresenceAt(call.env) = 0) =>
    /\ call.ret = 0
    /\ wire1state = IDLE

\* C5: wire1Reset was called in FUNCTION_COMMAND on a line that goes low only
\* after the presence window
C5_LatePresence ==
  /\ call.name = "wire1Reset"
  /\ call.pre = FUNCTION_COMMAND
  /\ call.env.d > PresenceLoops
  /\ call.ret = 0

\* C6 (as stated): wire1Reset returns 1 exactly when it leaves the phase
\* ROM_COMMAND, and exactly when the line was sampled low in the presence
\* window, then high in the release window, and not low in the rest of the
\* slot.
C6_PresenceDetected ==
  call.name = "wire1Reset" =>
    /\ (call.ret = 1) <=> (wire1state = ROM_COMMAND)
    /\ (call.ret = 1) <=> /\ call.pulse > 0
                          /\ PresenceAt(call.env) # 0
                          /\ ReleaseAt(call.env) # 0
                          /\ ~LowInRest(call.env)

\* C6: wire1Reset returned 0 although the last sample of the presence window
\* was low
C6_LastSampleMissed ==
  /\ call.name = "wire1Reset"
  /\ PresenceAt(call.env) = PresenceLoops
  /\ call.ret = 0

\* C7 (as stated): after a presence, wire1Reset returns -1 when the line is
\* at no sample of the release window high, and -2 when it is released and
\* low once more in the rest of the slot; the phase is IDLE in both cases.
C7_ResetTiming ==
  (call.name = "wire1Reset" /\ call.pulse > 0
   /\ PresenceAt(call.env) # 0) =>
    /\ ReleaseAt(call.env) = 0 => (call.ret = -1 /\ wire1state = IDLE)
    /\ LowInRest(call.env) => (call.ret = -2 /\ wire1state = IDLE)

\* C7: wire1Reset returned 1 although the last sample of the rest of the slot
\* was low
C7_LastRestSampleMissed ==
  /\ call.name = "wire1Reset"
  /\ LowInRest(call.env)
  /\ call.ret = 1

\* C8 (as stated): when the presence pulse lasts a single sample, the line
\* being high again at the first sample of the release window, wire1Reset
\* returns a negative value and leaves the phase IDLE.
C8_ShortPresence ==
  (/\ call.name = "wire1Reset" /\ call.pulse > 0
   /\ PresenceAt(call.env) # 0
   /\ ReleaseAt(call.env) = PresenceAt(call.env) + 1) =>
    /\ call.ret < 0
    /\ wire1state = IDLE

\* C8: wire1Reset returned 1 on a presence pulse of a single sample
C8_ShortPresenceAccepted ==
  /\ call.name = "wire1Reset"
  /\ PresenceAt(call.env) # 0
  /\ ReleaseAt(call.env) = PresenceAt(call.env) + 1
  /\ call.ret = 1
  /\ wire1state = ROM_COMMAND

\* C9 (amended): after a wire1Reset that does not return 1 the phase is IDLE,
\* unless the call started in WAIT_POLL and the idle poll used up its budget:
\* then no reset pulse was issued and the phase is still WAIT_POLL.
C9_FailedResetPhase ==
  (call.name = "wire1Reset" /\ call.ret # 1) =>
    IF call.pre = WAIT_POLL /\ NeverIdle(call.env, call.loops)
      THEN wire1state = WAIT_POLL /\ call.pulse = 0
      ELSE wire1state = IDLE

\* C9 (as stated): after a wire1Reset that does not return 1 the phase is
\* IDLE, whatever the phase the call started in.
C9_FailedResetIdle ==
  (call.name = "wire1Reset" /\ call.ret # 1) => wire1state = IDLE

\* C9: a wire1Reset in WAIT_POLL found the bus busy through its budget and
\* left the phase WAIT_POLL
C9_StillWaiting ==
  /\ call.name = "wire1Reset"
  /\ call.pre = WAIT_POLL
  /\ call.loops > 0
  /\ call.ret = -1
  /\ wire1state = WAIT_POLL

\* C10: a wire1Reset in WAIT_POLL that gets 0 from every read slot of its
\* budget returns -1 without a reset pulse: it holds the line for its read
\* slots only.
C10_BusNotIdle ==
  (/\ call.name = "wire1Reset"
   /\ call.pre = WAIT_POLL
   /\ NeverIdle(call.env, call.loops)) =>
    /\ call.ret = -1
    /\ call.pulse = 0
    /\ call.ops.resets = 0
    /\ call.ops.holds = call.ops.reads

\* C10: a wire1Reset with a budget of 2 polls found the bus busy in 3 read
\* slots and gave up
C10_BudgetUsedUp ==
  /\ call.name = "wire1Reset"
  /\ call.pre = WAIT_POLL
  /\ call.loops = 2
  /\ call.env.busy >= 2
  /\ call.ops.reads = 3
  /\ call.ret = -1

\* C11 (as stated): a wire1Reset in WAIT_POLL with a budget of n >= 1 polls
\* that reads the bus idle in one of its first n read slots, the first one
\* included, drives the reset pulse and returns what the presence handshake
\* gives.
C11_IdleBusResets ==
  (/\ call.name = "wire1Reset"
   /\ call.pre = WAIT_POLL
   /\ call.loops >= 1
   /\ call.env.busy < call.loops) =>
    /\ call.pulse > 0
    /\ call.ops.resets = 1
    /\ call.ret = ResetSlot(call.env).ret

\* C11: a wire1Reset with an armed budget read the bus idle in its first read
\* slot and returned -1 without a reset pulse
C11_IdleAtFirstPoll ==
  /\ call.name = "wire1Reset"
  /\ call.pre = WAIT_POLL
  /\ call.loops >= 1
  /\ call.env.busy = 0
  /\ call.ops.reads = 1
  /\ call.pulse = 0
  /\ call.ret = -1
  /\ wire1state = IDLE

\* the address wire1MatchROM sent in the call recorded in c
MatchedAddr(c) == SubSeq(c.bytes, 2, 1 + AddrBytes)

\* C12: a wire1ReadPowerSupply that directly follows a wire1MatchROM which
\* returned 0 for the address of a slave on the bus is not answered with -2;
\* it returns 1 when that slave is parasite powered and 0 when it is not.
C12_MatchThenPowerSupply ==
  [][(/\ call.name = "wire1MatchROM"
      /\ call.ret = 0
      /\ call'.name = "wire1ReadPowerSupply") =>
       \A d \in slaves :
         PoolAddr[d] = MatchedAddr(call) =>
           call'.ret = IF d \in parasite THEN 1 ELSE 0]_vars

\* C12: a wire1ReadPowerSupply right after a successful wire1MatchROM of a
\* slave on external power returned 0, with a parasite powered slave on the
\* same bus
C12_PowerOfMatchedSlave ==
  /\ call.name = "wire1ReadPowerSupply"
  /\ call.after = "wire1MatchROM"
  /\ call.pre = FUNCTION_COMMAND
  /\ \E d \in slaves : call.sel = {d} /\ d \notin parasite
  /\ parasite # {}
  /\ call.ret = 0

\* C13: the CRC of 7 bytes stored as the 8th byte makes crc8 over the 8 bytes,
\* from the same seed, return 0.
C13_CrcSelfCheck ==
  crc.checked =>
    /\ Len(crc.data) = AddrBytes
    /\ crc.data[AddrBytes]
         = crc8(crc.seed, crc.polynomial, SubSeq(crc.data, 1, 7), 7)
    /\ crc.remainder = 0

\* C13: the check was run with the polynomial of the ROM addresses on 7 bytes
\* whose CRC is not 0
C13_CrcStored ==
  /\ crc.checked
  /\ crc.polynomial = W1_CRC_POLYNOMIAL
  /\ crc.data[AddrBytes] # 0
  /\ crc.remainder = 0

\* C14: the return value of crc8 handed on as crcIn of the next call gives,
\* chunk after chunk, what one call of crc8 over all the data gives from the
\* first seed; crc8 over no data returns its seed.
C14_CrcChains ==
  /\ ~crc.checked =>
       crc.remainder
         = crc8(crc.seed, crc.polynomial, crc.data, Len(crc.data))
  /\ crc8(crc.remainder, crc.polynomial, <<>>, 0) = crc.remainder

\* C14: a computation reached its remainder in two calls or more, over 7 bytes
C14_CrcInChunks ==
  /\ ~crc.checked
  /\ crc.calls >= 2
  /\ Len(crc.data) = 7
  /\ crc.remainder # crc.seed

\* C15: wire1ReadByte right after wire1WriteByte(b), against a slave that
\* sends back the byte it received, returns b.
C15_ByteEcho ==
  echo.read >= 0 => echo.read = echo.written

\* C15: the byte 0xA5 was written and read back
C15_EchoedA5 ==
  /\ echo.written = 165
  /\ echo.slave = 165
  /\ echo.read = 165

\* the two searches
Searches == {"wire1SearchLargerROM", "wire1AlarmSearchLargerROM"}

\* C16: a search whose reset does not return 1 returns -1, sends no command
\* byte, does nothing on the line but what that reset did, which has no write
\* slot in it, and leaves addrOut as it was handed in.
C16_SearchAfterFailedReset ==
  (/\ call.name \in Searches
   /\ Reset(call.pre, call.loops, call.env).ret # 1) =>
    /\ call.ret = -1
    /\ call.bytes = <<>>
    /\ call.ops = Reset(call.pre, call.loops, call.env).ops
    /\ call.ops.writes = 0
    /\ call.addr = ZeroAddr

\* C16: a search on a bus with slaves failed on a reset that pulsed the line
\* and saw it low again after the presence
C16_SearchResetViolation ==
  /\ call.name = "wire1SearchLargerROM"
  /\ slaves # {}
  /\ call.pulse > 0
  /\ Reset(call.pre, call.loops, call.env).ret = -2
  /\ call.ret = -1

\* a search or a read-single call that got all 64 bits of an address
GotAddress(c) ==
  \/ c.name \in Searches /\ c.bytes # <<>> /\ c.ret # -128
  \/ c.name = "wire1ReadSingleROM" /\ c.bytes # <<>>

\* C17: when byte 7 of the address a search or a read-single call has put
\* together differs from crc8(0, 0x8C) of its bytes 0..6, the search returns
\* -1, wire1ReadSingleROM returns 1, and the phase is IDLE.
C17_CrcMismatchFails ==
  (/\ GotAddress(call)
   /\ call.addr[8] # crc8(0, W1_CRC_POLYNOMIAL, SubSeq(call.addr, 1, 7), 7)) =>
    /\ call.ret = IF call.name \in Searches THEN -1 ELSE 1
    /\ wire1state = IDLE

\* C17: a search walked all 64 bits of a ROM with a wrong CRC byte and failed
C17_SearchCrcMismatch ==
  /\ call.name = "wire1SearchLargerROM"
  /\ call.ops.writes = 8 + AddrBits
  /\ call.addr \in {PoolAddr[d] : d \in Defective}
  /\ call.ret = -1
  /\ wire1state = IDLE

ConflictsLeft(addr, part) ==
  {n \in 0..(AddrBits - 1) :
     /\ AddrBit(addr, n) = 0
     /\ \E s \in part :
          /\ AddrBit(PoolAddr[s], n) = 1
          /\ \A m \in 0..(n - 1) : AddrBit(PoolAddr[s], m) = AddrBit(addr, m)}

\* C19 (SpecChain): a search that returns p of 0..63 returns an address with
\* 0 at bit p while a slave of the bus has the same bits 0..p-1 and 1 at bit
\* p; a search that returns 64 has at no conflict of its path written 0.
C19_ConflictPosition ==
  (call.name = "wire1SearchLargerROM" /\ call.ret >= 0) =>
    IF call.ret = NoConflict
      THEN ConflictsLeft(call.addr, slaves) = {}
      ELSE call.ret \in ConflictsLeft(call.addr, slaves)

\* C19: a chained search on a bus of three slaves returned a position below 64
C19_ConflictReturned ==
  /\ call.name = "wire1SearchLargerROM"
  /\ Cardinality(slaves) = 3
  /\ Len(found) >= 1
  /\ call.ret \in 0..63
  /\ call.ret \in ConflictsLeft(call.addr, slaves)

\* the slaves that answer the bit loop of the search recorded in c
Answering(c) ==
  IF c.name = "wire1AlarmSearchLargerROM" THEN alarm ELSE slaves

\* C20: a search that gets 1 in both read slots of a bit, which is what a bit
\* loop without an answering slave gives at bit 0, returns -128 and has then
\* issued the two read slots of that bit and no write slot but those of the
\* command byte.
C20_NoAnswer ==
  (/\ call.name \in Searches
   /\ Reset(call.pre, call.loops, call.env).ret = 1
   /\ Answering(call) = {}) =>
    /\ call.ret = -128
    /\ call.ret # -1
    /\ call.ops.reads = Reset(call.pre, call.loops, call.env).ops.reads + 2
    /\ call.ops.writes = 8

\* C20: an alarm search on a bus with slaves, none with an alarm pending, was
\* left at bit 0
C20_LeftAtFirstBit ==
  /\ call.name = "wire1AlarmSearchLargerROM"
  /\ slaves # {}
  /\ alarm = {}
  /\ call.ops.reads = 2
  /\ call.ops.writes = 8
  /\ call.ret = -128

\* C21 (SpecChain): wire1AlarmSearchLargerROM, run in place of a chained
\* wire1SearchLargerROM with the same addrStart and lastConfPos on a bus whose
\* slaves all answer it, returns the same value and leaves the same addrOut,
\* the same phase and the same slaves addressed, after the same operations on
\* the line but for the command byte: 0xEC in place of 0xF0.
C21_AlarmSearchSame ==
  [][call'.name = "wire1SearchLargerROM" =>
       \E a \in {AlarmSearchLargerROM(
                   In(GoodEnv, slaves, addrStart, lastConfPos))} :
         /\ a.ret = call'.ret
         /\ a.addrOut = call'.addr
         /\ a.state = wire1state'
         /\ a.selected = selected'
         /\ OpsAdd(a.ops, WriteByteOps(W1_ROMCMD_SEARCH))
              = OpsAdd(call'.ops, WriteByteOps(W1_ROMCMD_ALARM))
         /\ a.bytes = <<W1_ROMCMD_ALARM>>
         /\ call'.bytes = <<W1_ROMCMD_SEARCH>>]_vars

\* C21: a chained search went on from the conflict position of the call
\* before it and found another address
C21_ContinuedSearch ==
  /\ call.name = "wire1SearchLargerROM"
  /\ call.bytes = <<W1_ROMCMD_SEARCH>>
  /\ Len(found) >= 2
  /\ call.ret >= 0
  /\ call.addr # found[1]

\* C22 (as stated): wire1MatchROM sends an address and enters FUNCTION_COMMAND
\* only when byte 7 of the address is the CRC of its bytes 0..6.
C22_MatchValidOnly ==
  (/\ call.name = "wire1MatchROM"
   /\ call.bytes # <<>> \/ wire1state = FUNCTION_COMMAND) =>
    /\ call.bytes # <<>>
    /\ MatchedAddr(call)[8]
         = crc8(0, W1_CRC_POLYNOMIAL, SubSeq(MatchedAddr(call), 1, 7), 7)

\* C22: wire1MatchROM sent an address with a wrong CRC byte, returned 0 and
\* entered FUNCTION_COMMAND
C22_MatchedWrongCrc ==
  /\ call.name = "wire1MatchROM"
  /\ call.ret = 0
  /\ call.ops.writes = 8 + AddrBits
  /\ MatchedAddr(call) \in {PoolAddr[d] : d \in Defective}
  /\ wire1state = FUNCTION_COMMAND

\* C23: wire1ReadPowerSupply called in FUNCTION_COMMAND writes the byte 0xB4
\* and issues one read slot; it returns 1 when a parasite powered slave is
\* among the addressed ones and 0 when none is, and leaves the phase IDLE.  A
\* wire1ReadPowerSupply that directly follows a wire1ReadPowerSupply returns
\* -2.
C23_PowerSupplyAnswer ==
  /\ (call.name = "wire1ReadPowerSupply" /\ call.pre = FUNCTION_COMMAND) =>
       /\ call.bytes = <<W1_FUNC_PARASITE_POWER>>
       /\ call.ops.writes = 8
       /\ call.ops.reads = 1
       /\ call.ret = IF call.sel \cap parasite # {} THEN 1 ELSE 0
       /\ wire1state = IDLE
  /\ (/\ call.name = "wire1ReadPowerSupply"
      /\ call.after = "wire1ReadPowerSupply") => call.ret = -2

\* C23: wire1ReadPowerSupply returned 1 with two slaves addressed, one of them
\* on external power
C23_OneParasiteAmongTwo ==
  /\ call.name = "wire1ReadPowerSupply"
  /\ call.pre = FUNCTION_COMMAND
  /\ Cardinality(call.sel) = 2
  /\ Cardinality(call.sel \cap parasite) = 1
  /\ call.ret = 1
  /\ wire1state = IDLE

\* the line read high at a sample of the reset pulse, while the master held
\* it low
HighWhileHeld(env) == FirstAt(ResetHeldLine(env), 0, ResetHoldLoops, 1) # 0

\* C25 (as stated): a wire1Reset that samples the line high during its reset
\* pulse returns an error other than the -1 and -2 of the timeouts, not 0 and
\* not 1, and does not enter ROM_COMMAND.
C25_HeldLineHigh ==
  (/\ call.name = "wire1Reset"
   /\ call.pulse > 0
   /\ HighWhileHeld(call.env)) =>
    /\ call.ret < 0
    /\ call.ret \notin {-1, -2}
    /\ wire1state # ROM_COMMAND

\* C25: wire1Reset read the line high at sample 50 of its reset pulse, ended
\* the pulse there, and returned 1 in ROM_COMMAND
C25_ShortPulseAccepted ==
  /\ call.name = "wire1Reset"
  /\ HighWhileHeld(call.env)
  /\ call.pulse = 50
  /\ call.ret = 1
  /\ wire1state = ROM_COMMAND

\* C26: on a bus with one slave, a compliant one, a wire1ReadSingleROM whose
\* reset sees the presence returns 0, leaves the 8 bytes of the ROM of that
\* slave in addr and enters FUNCTION_COMMAND; a wire1ReadSingleROM whose reset
\* pulse is answered by no presence returns -1 and writes nothing.
C26_ReadSingleROM ==
  call.name = "wire1ReadSingleROM" =>
    /\ \A d \in Compliant :
         (slaves = {d} /\ Reset(call.pre, call.loops, call.env).ret = 1) =>
           /\ call.ret = 0
           /\ call.addr = PoolAddr[d]
           /\ wire1state = FUNCTION_COMMAND
    /\ (call.pulse > 0 /\ PresenceAt(call.env) = 0) =>
         /\ call.ret = -1
         /\ call.bytes = <<>>
         /\ call.ops.writes = 0

\* C26: wire1ReadSingleROM read the ROM of the only slave of the bus
C26_SingleSlaveRead ==
  /\ call.name = "wire1ReadSingleROM"
  /\ slaves = {1}
  /\ call.ops.reads = AddrBits
  /\ call.addr = PoolAddr[1]
  /\ call.addr[AddrBytes] # 0
  /\ call.ret = 0
  /\ wire1state = FUNCTION_COMMAND

\* the arguments of a search whose addrStart points to its addrOut, the
\* buffer holding start
Aliased(env, part, start, last) ==
  [In(env, part, start, last) EXCEPT !.alias = TRUE, !.addrOut = start]

\* C27 (as stated; SpecChain): a chained wire1SearchLargerROM returns the
\* value and the address that the same call returns with addrStart pointing
\* to addrOut.
C27_AliasSame ==
  [][call'.name = "wire1SearchLargerROM" =>
       \E a \in {SearchLargerROM(
                   Aliased(GoodEnv, slaves, addrStart, lastConfPos))} :
         /\ a.ret = call'.ret
         /\ a.addrOut = call'.addr]_vars

\* C27: on the bus of the slaves 02.., 01.., 03.. the second search of the
\* chain, started from 02.. and position 0, returned 03.. and 64; with
\* addrStart pointing to addrOut it returns 01.. and 1
C27_AliasDiffers ==
  /\ slaves = {1, 2, 3}
  /\ Len(found) = 2
  /\ call.name = "wire1SearchLargerROM"
  /\ call.addr = PoolAddr[3]
  /\ call.ret = NoConflict
  /\ \E a \in {SearchLargerROM(Aliased(GoodEnv, slaves, found[1], 0))} :
       a.addrOut = PoolAddr[2] /\ a.ret = 1

\* the most samples wire1Reset takes with a budget of idleloops polls: the
\* read slots of the idle poll, the reset pulse and the three polls after it
ResetSampleBound(idleloops) ==
  (idleloops + 1) * ReadSamples
    + ResetHoldLoops + PresenceLoops + ReleaseLoops + RestLoops

\* the most samples the call name takes after its reset: the slots of its
\* bytes and bits, a write slot taking WriteLoops samples at most
TransferSampleBound(name) ==
  IF name \in Searches
    THEN 8 * WriteLoops + AddrBits * (2 * ReadSamples + WriteLoops)
  ELSE IF name = "wire1ReadSingleROM"
    THEN 8 * WriteLoops + AddrBits * ReadSamples
  ELSE IF name = "wire1MatchROM" THEN (8 + AddrBits) * WriteLoops
  ELSE IF name = "wire1SkipROM" THEN 8 * WriteLoops
  ELSE IF name = "wire1ReadPowerSupply" THEN 8 * WriteLoops + ReadSamples
  ELSE 0

\* C28: whatever the line does, a call takes no more samples of the line
\* than its polls and slots allow: those of its reset, if it has one, and
\* those of its transfers; it holds the line once per reset pulse and slot.
C28_BoundedSamples ==
  /\ call.ops.samples
       <= (IF call.name \in RomCommands \cup {"wire1Reset"}
             THEN ResetSampleBound(call.loops) ELSE 0)
          + TransferSampleBound(call.name)
  /\ call.ops.holds = call.ops.resets + call.ops.reads + call.ops.writes

\* C28: a wire1Reset on a line that stays low from the presence on gave up
\* after the release window
C28_StuckLowReset ==
  /\ call.name = "wire1Reset"
  /\ PresenceAt(call.env) # 0
  /\ ReleaseAt(call.env) = 0
  /\ call.ops.samples = ResetHoldLoops + PresenceAt(call.env) + ReleaseLoops
  /\ call.ret = -1

C24_RetryRecovers ==
  [](caller.retry =>
       <>(/\ call.name = "wire1Reset"
          /\ call.ret = 1
          /\ wire1state = ROM_COMMAND))

\* C24: a retried wire1Reset, called in WAIT_POLL with a poll budget of 0 on
\* an idle bus with a compliant slave, has returned -1 and left WAIT_POLL
C24_RetryStuck ==
  /\ caller.retry
  /\ slaves \cap Compliant # {}
  /\ wire1_idleloops = 0
  /\ call.name = "wire1Reset"
  /\ call.pre = WAIT_POLL
  /\ call.env = GoodEnv
  /\ call.ret = -1
  /\ wire1state = WAIT_POLL

\* C29: without a lock, caller A's wire1ReadPowerSupply after its successful
\* wire1MatchROM(a) is answered by a alone only when no call of caller B came
\* in between; when one did, it is rejected with -2 (B's function command
\* took the phase) or answered by the slaves B's ROM command addressed.
C29_Unlocked ==
  caller.stage = "asked" =>
    /\ call.name = "wire1ReadPowerSupply"
    /\ IF ~caller.between
         THEN /\ call.pre = FUNCTION_COMMAND
              /\ call.after = "wire1MatchROM"
              /\ call.sel = {caller.target}
              /\ call.ret = IF caller.target \in parasite THEN 1 ELSE 0
         ELSE \/ /\ call.after = "wire1ReadPowerSupply"
                 /\ call.pre = IDLE
                 /\ call.ret = -2
              \/ /\ call.after = "wire1SkipROM"
                 /\ call.pre = FUNCTION_COMMAND
                 /\ call.sel = slaves
                 /\ call.ret = IF slaves \cap parasite # {} THEN 1 ELSE 0
              \/ /\ call.after = "wire1MatchROM"
                 /\ call.pre = FUNCTION_COMMAND
                 /\ \E b \in slaves :
                      /\ call.sel = {b}
                      /\ call.ret = IF b \in parasite THEN 1 ELSE 0

\* C29: caller A asked for the power supply of a slave on external power
\* right after matching it, and was answered 1 by the other slaves that a
\* call of caller B had addressed in between
C29_AnsweredByOthers ==
  /\ caller.stage = "asked"
  /\ caller.between
  /\ caller.target \notin parasite
  /\ call.pre = FUNCTION_COMMAND
  /\ call.sel # {caller.target}
  /\ call.ret = 1

\* C29: caller A's wire1ReadPowerSupply right after its successful
\* wire1MatchROM was rejected with -2, caller B's function command having
\* come in between
C29_Rejected ==
  /\ caller.stage = "asked"
  /\ caller.between
  /\ call.after = "wire1ReadPowerSupply"
  /\ call.ret = -2


\* C31 (SpecTurn): in a turn of the search loop whose two read slots differ,
\* the engine issues one write slot with the value of the first read, stores
\* that value at the bit of addrOut, and leaves currConfPos as it was.
C31_DifferingPair ==
  [][(/\ search.stage = "loop"
      /\ search'.st # search.st
      /\ (TurnAck(search.st.part, search.st.bits) = 0)
           # (TurnNAck(search.st.part, search.st.bits) = 0)) =>
       /\ (search'.st.writeBit # 0)
            = (TurnAck(search.st.part, search.st.bits) # 0)
       /\ SearchOps(W1_ROMCMD_SEARCH, search'.st).writes
            = SearchOps(W1_ROMCMD_SEARCH, search.st).writes + 1
       /\ AddrBit(search'.st.addrOut, search.st.bits)
            = (IF TurnAck(search.st.part, search.st.bits) # 0 THEN 1 ELSE 0)
       /\ search'.st.currConfPos = search.st.currConfPos]_vars

\* C31: on a bus of two slaves or more, the turn at bit 3 read 1 and then 0
\* from the slaves still taking part, wrote 1 and stored it in addrOut
C31_WroteFirstRead ==
  /\ search.stage = "loop"
  /\ search.st.bits = 4
  /\ Cardinality(slaves) >= 2
  /\ TurnAck(Following(search.st.addrOut, 3), 3) # 0
  /\ TurnNAck(Following(search.st.addrOut, 3), 3) = 0
  /\ search.st.writeBit # 0
  /\ AddrBit(search.st.addrOut, 3) = 1

C33_LowestFromScratch ==
  [][(lastConfPos = 255 /\ search.stage = "loop") =>
       /\ (/\ search'.st # search.st
           /\ TurnAck(search.st.part, search.st.bits) = 0
           /\ TurnNAck(search.st.part, search.st.bits) = 0) =>
            search'.st.writeBit = 0
       /\ (search'.stage = "returned" /\ call'.ret >= 0) =>
            \A a \in BusAddrs : ~BitLess(a, call'.addr)]_vars

\* C33: a search started with lastConfPos = 255 and addrStart = 03.. on the
\* bus of the slaves 02.., 01.., 03.. wrote 1 at both conflicts and returned
\* 03.., the last address of the bus in the order of the search
C33_FollowedStart ==
  /\ search.stage = "returned"
  /\ slaves = {1, 2, 3}
  /\ lastConfPos = 255
  /\ addrStart = PoolAddr[3]
  /\ call.ret = NoConflict
  /\ call.addr = PoolAddr[3]
  /\ \A a \in BusAddrs : a = call.addr \/ BitLess(a, call.addr)


\* C34 (as stated; SpecProbe): wire1Poll4Hold(n) and wire1Poll4Release(n)
\* return k of 1..n when the k-th sample is the first to show the level they
\* wait for, the n-th sample included, and 0 exactly when none of the n
\* samples shows it.
C34_PollCount ==
  /\ probe.op = "wire1Poll4Hold" =>
       probe.ret = FirstAt(probe.line, 0, probe.nloops, 0)
  /\ probe.op = "wire1Poll4Release" =>
       probe.ret = FirstAt(probe.line, 0, probe.nloops, 1)

\* C34: wire1Poll4Hold(3) returned 0 on a line that is high at the samples 1
\* and 2 and low at sample 3
C34_LastSampleLost ==
  /\ probe.op = "wire1Poll4Hold"
  /\ probe.nloops = 3
  /\ probe.line[1] = 1 /\ probe.line[2] = 1 /\ probe.line[3] = 0
  /\ probe.ret = 0

\* C35 (SpecProbe): wire1ReadBit returns 0 when one sample or more of its
\* slot is low and 0xFF when all are high; answered by several slaves at
\* once it returns nonzero exactly when every one of them sends 1.
C35_ReadBitAnd ==
  probe.op = "wire1ReadBit" =>
    /\ probe.ret = IF \E t \in 1..ReadSamples : probe.line[t] = 0
                     THEN 0 ELSE 255
    /\ probe.line = AnsweredLine(probe.bits) =>
         (probe.ret # 0) = (\A i \in DOMAIN probe.bits : probe.bits[i] = 1)

\* C35: a read slot answered by a slave that sends 1 and a slave that sends
\* 0 returned 0
C35_OneAndZero ==
  /\ probe.op = "wire1ReadBit"
  /\ probe.bits = <<1, 0>>
  /\ probe.ret = 0


\* C36 (SpecEcho): wire1WriteByte(b) issues 8 write slots and no other slot,
\* slot i carrying bit i of b for i = 0..7 in this order; wire1ReadByte
\* issues 8 read slots and no other slot, and bit i of what it returns is 1
\* exactly when read slot i returned nonzero.
C36_ByteSlots ==
  /\ (echo.written >= 0 /\ echo.read < 0) =>
       /\ Len(echo.wrote) = 8
       /\ \A i \in 0..7 : echo.wrote[i + 1] = BitOf(echo.written, i)
       /\ echo.ops.writes = 8
       /\ echo.ops.reads = 0 /\ echo.ops.resets = 0
  /\ echo.read >= 0 =>
       /\ Len(echo.slots) = 8
       /\ \A i \in 0..7 : (BitOf(echo.read, i) = 1) = (echo.slots[i + 1] # 0)
       /\ echo.ops.reads = 8
       /\ echo.ops.writes = 0 /\ echo.ops.resets = 0

\* C36: wire1ReadByte got nonzero from the read slots 0, 1 and 7 only and
\* returned 0x83
C36_Read83 ==
  /\ echo.read = 131
  /\ echo.slots = <<255, 255, 0, 0, 0, 0, 0, 255>>


\* C37 (Spec): the phase leaves WAIT_POLL only in a call whose idle poll got
\* a read slot answered with 1 within the armed budget; while every read
\* slot of the poll is answered with 0, no call moves the phase out of
\* WAIT_POLL.
C37_WaitPollKept ==
  [][wire1state = WAIT_POLL =>
       /\ wire1state' # WAIT_POLL =>
            /\ call'.name \in RomCommands \cup {"wire1Reset"}
            /\ call'.ops.reads >= 1
            /\ \E j \in 1..call'.loops : j > call'.env.busy
       /\ (call'.name # "wire1SetupPoll4Idle"
           /\ call'.env.busy > call'.loops) => wire1state' = WAIT_POLL]_vars

\* C37: a wire1Reset called in WAIT_POLL with a budget of 2 polls was
\* answered with 0 once and with 1 in the second read slot, and went on to
\* find a presence
C37_LeftAfterIdle ==
  /\ call.name = "wire1Reset"
  /\ call.pre = WAIT_POLL
  /\ call.loops = 2
  /\ call.env.busy = 1
  /\ call.ret = 1
  /\ wire1state = ROM_COMMAND

\* C38 (Spec): a ROM command sends its command byte, and issues any slot
\* after its reset, only when the wire1Reset inside the call has pulsed the
\* line, seen a presence, returned 1 and entered ROM_COMMAND; otherwise the
\* call does nothing on the line but what that reset did.
C38_CommandAfterPresence ==
  call.name \in RomCommands =>
    \E r \in {Reset(call.pre, call.loops, call.env)} :
      IF call.bytes # <<>> \/ call.ops # r.ops
        THEN /\ r.ret = 1
             /\ r.state = ROM_COMMAND
             /\ call.pulse > 0
             /\ call.ops.resets = 1
             /\ PresenceAt(call.env) # 0
             /\ call.bytes[1] = RomCommandByte(call.name)
        ELSE /\ r.ret # 1
             /\ call.ret = -1
             /\ call.ops.writes = 0

\* C38: wire1ReadSingleROM on a bus with slaves pulsed the line, saw the
\* presence and then the line low once more, and returned -1 without a byte
C38_NoByteAfterBadReset ==
  /\ call.name = "wire1ReadSingleROM"
  /\ slaves # {}
  /\ call.pulse > 0
  /\ PresenceAt(call.env) # 0
  /\ LowInRest(call.env)
  /\ call.bytes = <<>>
  /\ call.ret = -1

\* C39 (SpecChain): a search that returns a value of 0..64 on a bus of
\* compliant slaves has put into addrOut the address of a slave of the bus,
\* and the slaves it leaves selected are the slaves with that address.
C39_FoundIsOnBus ==
  (call.name \in Searches /\ call.ret \in 0..NoConflict) =>
    /\ call.addr \in BusAddrs
    /\ selected = {s \in slaves : PoolAddr[s] = call.addr}
    /\ selected # {}

\* C39: the second search of a chain on a bus of three slaves returned an
\* address and left one slave selected
C39_OneOfThree ==
  /\ call.name = "wire1SearchLargerROM"
  /\ Cardinality(slaves) = 3
  /\ Len(found) = 2
  /\ call.ret \in 0..NoConflict
  /\ call.addr = found[2]
  /\ Cardinality(selected) = 1

\* C40 (Spec): every call returns with the line released: it has released
\* the line as often as it has held it, and it has held it once for every
\* reset pulse, read slot and write slot, and at no other time.
C40_LineReleased ==
  /\ call.ops.releases = call.ops.holds
  /\ call.ops.holds = call.ops.resets + call.ops.reads + call.ops.writes
  /\ call.ops.resets <= 1

\* C40: a search returned -128 out of its bit loop, after its reset, its
\* command byte and two read slots
C40_ReleasedAfterError ==
  /\ call.name \in Searches
  /\ call.ret = -128
  /\ call.ops.resets = 1
  /\ call.ops.writes = 8
  /\ call.ops.reads = 2
  /\ call.ops.holds = 11
  /\ call.ops.releases = 11

====
